---- MODULE Spec2Model ----
(***************************************************************************)
(* Model of the highlight-to-reel rendering pipeline of video2reel:        *)
(* VideoEditorService in src/service/video_editor_service.py.              *)
(*                                                                         *)
(* Conventions.                                                            *)
(*  - A Python str is a sequence of one-character strings.                 *)
(*  - Times are integers counting hundredths of a second (2.0 s is 200,    *)
(*    the 0.1 s threshold is 10).                                          *)
(*  - A Python dict is a record; a key the dict lacks is a field the       *)
(*    record lacks, and dict.get(key, default) is Get(d, key, default).    *)
(*  - The media engine (moviepy) is outside the repository; each call to   *)
(*    it is modelled at its call site by what the call returns or raises.  *)
(***************************************************************************)
EXTENDS Integers, Sequences, FiniteSets, TLC

VARIABLES
    video,              \* the source file: [exists, duration, size]
    highlights,         \* argument of process_multiple_highlights
    captions,           \* the caption track passed by the caller
    resize_method,      \* argument resize_method
    add_captions_flag,  \* argument add_captions of process_highlight_to_reel
    out_dir_arg,        \* argument output_dir of process_multiple_highlights
    output_dir,         \* self.output_dir
    bpc,                \* position in process_multiple_highlights
    i,                  \* loop index of process_multiple_highlights
    reel_paths,         \* local list reel_paths
    call,               \* arguments of the running process_highlight_to_reel
    pc,                 \* position in process_highlight_to_reel
    clip,               \* local variable clip
    temp_clips,         \* local list temp_clips
    opened,             \* clip handles opened by the running call
    closed,             \* clip handles closed by the running call
    adjusted_captions,  \* local list adjusted_captions
    caption_log,        \* captions named by the warnings of add_captions
    result,             \* what the running call returns or raises
    files,              \* the videos written, by path: the clip written to each
    log,                \* logger records (item start, reel created, item error)
    fn_in,              \* input of a function applied on its own
    fn_out,             \* its result
    response,           \* the JSON body and status the endpoint answers with
    calls,              \* the calls made on the service object so far
    upc,                \* position in upload_video_file
    elapsed,            \* time.time() - start_time, in seconds
    r,                  \* the last answer to a poll of the upload task
    route,              \* the workflow endpoint that handles the request
    wpc,                \* position in the workflow endpoint
    temp_files,         \* the files of the request that exist in the temp dir
    video_path,         \* local variable video_path of the workflow endpoint
    renders             \* the renders of requests handled at the same time

vars == <<video, highlights, captions, resize_method, add_captions_flag,
          out_dir_arg, output_dir, bpc, i, reel_paths, call, pc, clip,
          temp_clips, opened, closed, adjusted_captions, caption_log, result,
          files, log, fn_in, fn_out, response, calls, upc, elapsed, r, route,
          wpc, temp_files, video_path, renders>>

uploadVars == <<upc, elapsed, r>>

workflowVars == <<route, wpc, temp_files, video_path>>

extVars == <<calls, uploadVars, workflowVars, renders>>

inputVars == <<video, highlights, captions, resize_method, add_captions_flag,
               out_dir_arg>>

callVars == <<call, pc, clip, temp_clips, opened, closed, adjusted_captions,
              caption_log, result>>

batchVars == <<bpc, i, reel_paths>>

fnVars == <<fn_in, fn_out>>

(***************************************************************************)
(* Bounds of the model.                                                    *)
(***************************************************************************)
MaxHighlights == 3

MaxCaptions == 2

MaxIndex == 11

MaxTitleLen == 2

MaxSlugLen == 3

MaxDim == 20

MaxItems == 2

MaxTextLen == 7

MaxTimeout == 5

(***************************************************************************)
(* Python helpers.                                                         *)
(***************************************************************************)
\* None; the code tests None and the empty str or list by truthiness alone
\* (lines 411, 454, 507), so one value stands for both
None == <<>>

Get(d, key, default) == IF key \in DOMAIN d THEN d[key] ELSE default

Max(a, b) == IF a >= b THEN a ELSE b

Min(a, b) == IF a <= b THEN a ELSE b

SeqsUpTo(S, n) == UNION {[1..k -> S] : k \in 0..n}

Digits == <<"0", "1", "2", "3", "4", "5", "6", "7", "8", "9">>

RECURSIVE Str(_)
Str(n) == IF n < 10 THEN <<Digits[n + 1]>>
          ELSE Str(n \div 10) \o <<Digits[(n % 10) + 1]>>

(***************************************************************************)
(* Output names: process_multiple_highlights, lines 515-522, and           *)
(* process_highlight_to_reel, lines 453-457.                               *)
(***************************************************************************)
Letters == {"a", "b", "c", "e", "i", "p", "v", "x", "E", "S"}

DigitChars == {Digits[k] : k \in 1..10}

\* str.isalnum of one character
IsAlnum(c) == c \in Letters \cup DigitChars

\* str.isspace of one character (what rstrip() removes)
IsSpace(c) == c \in {" ", "\t", "\n"}

KeepCharBang(c) == IsAlnum(c) \/ c \in {" ", "-", "_", "!"}

KeepCharSeparator(c) == IsAlnum(c) \/ c \in {" ", "-", "_", "/", "."}

\* line 520: c.isalnum() or c in (' ', '-', '_')
KeepChar(c) == IsAlnum(c) \/ c \in {" ", "-", "_"}

RECURSIVE RStrip(_)
RStrip(s) == IF s # <<>> /\ IsSpace(s[Len(s)])
             THEN RStrip(SubSeq(s, 1, Len(s) - 1))
             ELSE s

\* str.replace(' ', '_')
ReplaceSpaces(s) == [k \in 1..Len(s) |-> IF s[k] = " " THEN "_" ELSE s[k]]

\* lines 520-521: safe_title
SafeTitle(title) == ReplaceSpaces(RStrip(SelectSeq(title, KeepChar)))

\* line 517: the default title f'highlight_{i}'
DefaultTitle(idx) == <<"h", "i", "g", "h", "l", "i", "g", "h", "t", "_">> \o Str(idx)

OutputFilenameNoSeparator(idx, title) ==
    <<"r", "e", "e", "l", "_">> \o Str(idx + 1) \o SafeTitle(title)
        \o <<".", "m", "p", "4">>

\* line 522: f"reel_{i+1}_{safe_title}.mp4"
OutputFilename(idx, title) ==
    <<"r", "e", "e", "l", "_">> \o Str(idx + 1) \o <<"_">> \o SafeTitle(title)
        \o <<".", "m", "p", "4">>

\* os.path.join(self.output_dir, output_filename), line 457
PathJoin(dir, name) ==
    IF name # <<>> /\ name[1] = "/" THEN name ELSE dir \o <<"/">> \o name

(***************************************************************************)
(* Geometric transform: resize_to_portrait, lines 159-200.                 *)
(***************************************************************************)
REEL_WIDTH == 1080

REEL_HEIGHT == 1920

\* REEL_ASPECT_RATIO = 9 / 16, kept as the fraction RatioNum / RatioDen
RatioNum == 9

RatioDen == 16

\* line 169: original_ratio > target_ratio, for original_height > 0
WiderThanTarget(w, h) == w * RatioDen > RatioNum * h

\* lines 169-182: the window handed to vfx.crop; int() of a value >= 0 is
\* its floor, and x_center +- new_width / 2 is (w +- new_width) / 2
CropWindow(w, h) ==
    IF WiderThanTarget(w, h)
    THEN LET new_width == (h * RatioNum) \div RatioDen
         IN  [x1 |-> (w - new_width) \div 2, x2 |-> (w + new_width) \div 2,
              y1 |-> 0, y2 |-> h]
    ELSE LET new_height == (w * RatioDen) \div RatioNum
         IN  [x1 |-> 0, x2 |-> w,
              y1 |-> (h - new_height) \div 2, y2 |-> (h + new_height) \div 2]

FullWindow(w, h) == [x1 |-> 0, x2 |-> w, y1 |-> 0, y2 |-> h]

EmptyWindow(win) == win.x2 <= win.x1 \/ win.y2 <= win.y1

\* What resize_to_portrait(clip, method) can do for a clip of size <<w, h>>:
\* the set of its outcomes [raised, type, window, size, fresh], fresh telling
\* whether the clip returned is a new clip object.
\*  - line 161 divides by original_height;
\*  - 'crop' crops to CropWindow and resizes to the reel size (line 185); the
\*    engine is given an empty frame when the window is empty, and scaling
\*    that may fail;
\*  - 'fit' reads target_ratio at line 189, a local assigned only in the
\*    'crop' branch (line 167): UnboundLocalError;
\*  - any other method returns the clip as it came (line 197).
ResizeOutcomes(size, method) ==
    LET w == size[1]
        h == size[2]
        raise(type) == [raised |-> TRUE, type |-> type,
                        window |-> FullWindow(w, h), size |-> size,
                        fresh |-> FALSE]
    IN  IF h = 0 THEN {raise("ZeroDivisionError")}
        ELSE IF method = "crop"
        THEN LET win == CropWindow(w, h)
                 scaled == [raised |-> FALSE, type |-> "", window |-> win,
                            size |-> <<REEL_WIDTH, REEL_HEIGHT>>, fresh |-> TRUE]
             IN  IF EmptyWindow(win)
                 THEN {scaled, [raise("ValueError") EXCEPT !.window = win]}
                 ELSE {scaled}
        ELSE IF method = "fit"
        THEN {raise("UnboundLocalError")}
        ELSE {[raised |-> FALSE, type |-> "", window |-> FullWindow(w, h),
               size |-> size, fresh |-> FALSE]}

(***************************************************************************)
(* Extraction: extract_clip, lines 139-146.                                *)
(***************************************************************************)
\* VideoClip.subclip takes a negative time as counted from the end
FromEnd(t, duration) == IF t < 0 THEN duration + t ELSE t

\* extract_clip(video_path, start_time, end_time): [raised, opened, duration].
\*  - line 141, VideoFileClip(video_path), raises when the file cannot be
\*    opened; nothing is open then;
\*  - line 142, video.subclip(start_time, end_time), raises when the start
\*    lies beyond the source's duration, with the source left open; no other
\*    relation between start, end and the duration is examined.
ExtractOutcome(v, start_time, end_time) ==
    IF ~v.exists
    THEN [raised |-> TRUE, type |-> "OSError", opened |-> {}, duration |-> 0]
    ELSE IF FromEnd(start_time, v.duration) > v.duration
    THEN [raised |-> TRUE, type |-> "ValueError", opened |-> {"source"},
          duration |-> 0]
    ELSE [raised |-> FALSE, type |-> "", opened |-> {"source", "trimmed"},
          duration |-> FromEnd(end_time, v.duration)
                         - FromEnd(start_time, v.duration)]

(***************************************************************************)
(* Captions: process_highlight_to_reel, lines 411-451, and add_captions,   *)
(* lines 307-371.                                                          *)
(***************************************************************************)
\* line 421: the default length of a caption without 'end', 2.0 s
DefaultCaptionLength == 200

\* line 332: the shortest caption shown, 0.1 s
MinCaptionLength == 10

AdjustOneNoClamp(cap, start_time, end_time) ==
    LET cap_start_abs == Get(cap, "start", 0)
        cap_end_abs == Get(cap, "end", cap_start_abs + DefaultCaptionLength)
        clip_duration == end_time - start_time
        cap_start == cap_start_abs - start_time
        cap_end == cap_end_abs - start_time
    IN  IF cap_end > 0 /\ cap_start < clip_duration /\ cap_end > cap_start
        THEN <<[text |-> Get(cap, "text", <<>>), start |-> cap_start,
                end |-> cap_end]>>
        ELSE <<>>

AdjustOneNoRebase(cap, start_time, end_time) ==
    LET cap_start_abs == Get(cap, "start", 0)
        cap_end_abs == Get(cap, "end", cap_start_abs + DefaultCaptionLength)
        clip_duration == end_time - start_time
        adjusted_start == Max(0, cap_start_abs)
        adjusted_end == Min(clip_duration, cap_end_abs)
    IN  IF cap_end_abs > 0 /\ cap_start_abs < clip_duration
           /\ adjusted_end > adjusted_start
        THEN <<[text |-> Get(cap, "text", <<>>), start |-> adjusted_start,
                end |-> adjusted_end]>>
        ELSE <<>>

\* lines 418-440, one turn of the loop: what a caption adds to
\* adjusted_captions
AdjustOne(cap, start_time, end_time) ==
    LET cap_start_abs == Get(cap, "start", 0)
        cap_end_abs == Get(cap, "end", cap_start_abs + DefaultCaptionLength)
        clip_duration == end_time - start_time
        cap_start == cap_start_abs - start_time
        cap_end == cap_end_abs - start_time
        adjusted_start == Max(0, cap_start)
        adjusted_end == Min(clip_duration, cap_end)
    IN  IF cap_end > 0 /\ cap_start < clip_duration
           /\ adjusted_end > adjusted_start
        THEN <<[text |-> Get(cap, "text", <<>>), start |-> adjusted_start,
                end |-> adjusted_end]>>
        ELSE <<>>

\* lines 413-440: adjusted_captions after the loop
RECURSIVE AdjustCaptions(_, _, _)
AdjustCaptions(caps, start_time, end_time) ==
    IF caps = <<>> THEN <<>>
    ELSE AdjustOne(Head(caps), start_time, end_time)
             \o AdjustCaptions(Tail(caps), start_time, end_time)

RECURSIVE LStrip(_)
LStrip(s) == IF s # <<>> /\ IsSpace(s[1]) THEN LStrip(Tail(s)) ELSE s

\* str.strip()
Strip(s) == LStrip(RStrip(s))

LowerCase == <<"a", "b", "c", "e", "h", "i", "p", "v", "x">>

UpperCase == <<"A", "B", "C", "E", "H", "I", "P", "V", "X">>

\* str.upper()
Upper(s) ==
    [k \in 1..Len(s) |->
        IF \E j \in DOMAIN LowerCase : LowerCase[j] = s[k]
        THEN UpperCase[CHOOSE j \in DOMAIN LowerCase : LowerCase[j] = s[k]]
        ELSE s[k]]

\* the length of the first word of s, s beginning with a character that is
\* no blank
RECURSIVE WordLen(_)
WordLen(s) == IF s = <<>> \/ IsSpace(s[1]) THEN 0 ELSE 1 + WordLen(Tail(s))

\* str.split()
RECURSIVE Split(_)
Split(s) ==
    LET t == LStrip(s)
    IN  IF t = <<>> THEN <<>>
        ELSE <<SubSeq(t, 1, WordLen(t))>>
                 \o Split(SubSeq(t, WordLen(t) + 1, Len(t)))

\* sep.join(parts)
RECURSIVE Join(_, _)
Join(parts, sep) ==
    IF parts = <<>> THEN <<>>
    ELSE IF Len(parts) = 1 THEN parts[1]
    ELSE parts[1] \o sep \o Join(Tail(parts), sep)

WordsPerLine == 3

\* lines 231-239 of create_caption_clip: formatted_text
FormattedText(text) ==
    LET words == Split(Strip(text))
        count == (Len(words) + WordsPerLine - 1) \div WordsPerLine
        formatted_lines ==
            [k \in 1..count |->
                Upper(Join(SubSeq(words, WordsPerLine * (k - 1) + 1,
                                  Min(WordsPerLine * k, Len(words))),
                           <<" ">>))]
    IN  Join(formatted_lines, <<"\n">>)

\* line 268 of create_caption_clip: the text of the fallback clip
FallbackText(text) == Upper(text)

\* What create_caption_clip can do: build the outlined clip (lines 242-262),
\* build the plain clip after the outlined one failed (lines 267-278), or
\* raise after both failed (line 281).
TextClipOutcomes == {"outlined", "plain", "raise"}

\* create_caption_clip(text, duration), not raising: the clip returned
CreateCaptionClip(text, duration, outcome) ==
    [text |-> IF outcome = "outlined" THEN FormattedText(text)
              ELSE FallbackText(text),
     style |-> outcome, duration |-> duration]

\* txt_clip.set_start(start), line 344
SetStart(txt_clip, start) ==
    [text |-> txt_clip.text, style |-> txt_clip.style, start |-> start,
     duration |-> txt_clip.duration]

OverlayOfNoClamp(caption, clip_duration, outcome) ==
    LET text == Strip(Get(caption, "text", <<>>))
        start == Get(caption, "start", 0)
        end == Get(caption, "end", start + DefaultCaptionLength)
        duration == end - start
    IN  IF text = <<>> \/ duration <= 0 \/ start < 0 \/ start >= clip_duration
        THEN [skipped |-> TRUE, failed |-> FALSE]
        ELSE IF duration < MinCaptionLength
        THEN [skipped |-> TRUE, failed |-> FALSE]
        ELSE IF outcome = "raise"
        THEN [skipped |-> FALSE, failed |-> TRUE]
        ELSE [skipped |-> FALSE, failed |-> FALSE,
              clip |-> SetStart(CreateCaptionClip(text, duration, outcome), start)]

\* lines 317-353, one turn of the loop of add_captions on a clip of the given
\* duration: the caption is skipped by the inclusion rule (lines 323, 332),
\* or its overlay fails (lines 351-353), or its overlay is appended to
\* caption_clips (lines 344-345)
OverlayOf(caption, clip_duration, outcome) ==
    LET text == Strip(Get(caption, "text", <<>>))
        start == Get(caption, "start", 0)
        end == Get(caption, "end", start + DefaultCaptionLength)
        duration == end - start
        clamped == IF end > clip_duration THEN clip_duration - start ELSE duration
    IN  IF text = <<>> \/ duration <= 0 \/ start < 0 \/ start >= clip_duration
        THEN [skipped |-> TRUE, failed |-> FALSE]
        ELSE IF clamped < MinCaptionLength
        THEN [skipped |-> TRUE, failed |-> FALSE]
        ELSE IF outcome = "raise"
        THEN [skipped |-> FALSE, failed |-> TRUE]
        ELSE [skipped |-> FALSE, failed |-> FALSE,
              clip |-> SetStart(CreateCaptionClip(text, clamped, outcome), start)]

NextCaptionBreak(k, n) == n + 1

\* line 353: the handler ends with continue
NextCaptionAfterFailure(k, n) == k + 1

\* lines 314-353 from caption k on: what is appended to caption_clips, and
\* the 1-based numbers of the captions of the warnings of line 352;
\* outcomes[k] is what create_caption_clip does for caption k
RECURSIVE CaptionLoop(_, _, _, _)
CaptionLoop(caps, clip_duration, outcomes, k) ==
    IF k > Len(caps) THEN [caption_clips |-> <<>>, warnings |-> <<>>]
    ELSE LET turn == OverlayOf(caps[k], clip_duration, outcomes[k])
             next == IF turn.failed
                     THEN NextCaptionAfterFailure(k, Len(caps))
                     ELSE k + 1
             rest == CaptionLoop(caps, clip_duration, outcomes, next)
         IN  [caption_clips |->
                  (IF turn.skipped \/ turn.failed THEN <<>> ELSE <<turn.clip>>)
                      \o rest.caption_clips,
              warnings |->
                  (IF turn.failed THEN <<k>> ELSE <<>>) \o rest.warnings]

(***************************************************************************)
(* Highlights from the analysis text: twelvelabs_service.py,               *)
(* _parse_highlights_from_analysis, lines 118-149. The pattern of line 131 *)
(*   \*\*(.+?)\*\*:?\s*\[(\d+)s?\s*(?:\([^)]+\))?\s*~\s*(\d+)s?\s*         *)
(*                                                  (?:\([^)]+\))?\]       *)
(* is matched as re.findall matches it: leftmost, the title as short as    *)
(* possible, every other part as long as possible.                         *)
(***************************************************************************)
\* the character at position p, "" beyond the end of the text
At(text, p) == IF p \in DOMAIN text THEN text[p] ELSE ""

\* \s* from p: the position after it
RECURSIVE SkipSpaces(_, _)
SkipSpaces(text, p) ==
    IF IsSpace(At(text, p)) THEN SkipSpaces(text, p + 1) ELSE p

\* \d* from p: the position after it
RECURSIVE SkipDigits(_, _)
SkipDigits(text, p) ==
    IF At(text, p) \in DigitChars THEN SkipDigits(text, p + 1) ELSE p

\* the first position >= p holding ')', 0 when there is none
RECURSIVE FindClose(_, _)
FindClose(text, p) ==
    IF p > Len(text) THEN 0
    ELSE IF text[p] = ")" THEN p
    ELSE FindClose(text, p + 1)

\* (?:\([^)]+\))? from p: the position after it (p when the group is absent
\* or cannot match)
SkipClock(text, p) ==
    IF At(text, p) = "("
    THEN LET close == FindClose(text, p + 1)
         IN  IF close > p + 1 THEN close + 1 ELSE p
    ELSE p

\* (\d+)s?\s*(?:\([^)]+\))?\s* from p: [ok, digits, next]
Seconds(text, p) ==
    LET d == SkipDigits(text, p)
        s == IF At(text, d) = "s" THEN d + 1 ELSE d
        next == SkipSpaces(text, SkipClock(text, SkipSpaces(text, s)))
    IN  [ok |-> d > p, digits |-> SubSeq(text, p, d - 1), next |-> next]

NoMatch == [ok |-> FALSE, start |-> <<>>, end |-> <<>>, next |-> 0]

\* :?\s*\[ ... ~\s* ... \] from p, the part of the pattern after the title
Bracket(text, p) ==
    LET c == IF At(text, p) = ":" THEN p + 1 ELSE p
        b == SkipSpaces(text, c)
        first == Seconds(text, b + 1)
        t == SkipSpaces(text, first.next + 1)
        second == Seconds(text, t)
    IN  IF At(text, b) # "[" \/ ~first.ok THEN NoMatch
        ELSE IF At(text, first.next) # "~" \/ ~second.ok THEN NoMatch
        ELSE IF At(text, second.next) # "]" THEN NoMatch
        ELSE [ok |-> TRUE, start |-> first.digits, end |-> second.digits,
              next |-> second.next + 1]

\* the ends e of a title text[p+2 .. e] with which the pattern matches at p
TitleEnds(text, p) ==
    {e \in (p + 2)..Len(text) :
        /\ \A k \in (p + 2)..e : text[k] # "\n"
        /\ At(text, e + 1) = "*" /\ At(text, e + 2) = "*"
        /\ Bracket(text, e + 3).ok}

\* the match of the pattern that begins at p: [ok, groups, next]
MatchAt(text, p) ==
    IF At(text, p) = "*" /\ At(text, p + 1) = "*" /\ TitleEnds(text, p) # {}
    THEN LET e == CHOOSE x \in TitleEnds(text, p) :
                      \A y \in TitleEnds(text, p) : x <= y
             rest == Bracket(text, e + 3)
         IN  [ok |-> TRUE,
              groups |-> <<SubSeq(text, p + 2, e), rest.start, rest.end>>,
              next |-> rest.next]
    ELSE [ok |-> FALSE, groups |-> <<>>, next |-> p + 1]

\* re.findall(pattern, text) from position p on
RECURSIVE FindAll(_, _)
FindAll(text, p) ==
    IF p > Len(text) THEN <<>>
    ELSE LET m == MatchAt(text, p)
         IN  IF m.ok THEN <<m.groups>> \o FindAll(text, m.next)
             ELSE FindAll(text, p + 1)

DigitValue(c) == CHOOSE k \in 0..9 : Digits[k + 1] = c

\* int of a str of decimal digits
RECURSIVE IntOf(_)
IntOf(s) ==
    IF s = <<>> THEN 0
    ELSE 10 * IntOf(SubSeq(s, 1, Len(s) - 1)) + DigitValue(s[Len(s)])

\* float(s) of a str of decimal digits, a time in seconds: in hundredths
Float(s) == 100 * IntOf(s)

HighlightOfUntrimmed(match) ==
    [title |-> match[1], start |-> Float(match[2]), end |-> Float(match[3])]

\* lines 138-144: the highlight appended for a match
HighlightOf(match) ==
    [title |-> Strip(match[1]), start |-> Float(match[2]),
     end |-> Float(match[3])]

\* lines 133-149
ParseHighlights(analysis_text) ==
    LET matches == FindAll(analysis_text, 1)
    IN  [k \in DOMAIN matches |-> HighlightOf(matches[k])]

(***************************************************************************)
(* process_highlight_to_reel, lines 398-484, one action per step.          *)
(***************************************************************************)
Range(s) == {s[k] : k \in DOMAIN s}

NoClip == [kind |-> "none", size |-> <<0, 0>>, duration |-> 0, overlays |-> <<>>]

NoResult == [kind |-> "none"]

\* an exception leaving process_highlight_to_reel through lines 475-477: its
\* type, and the step that raised it (which the exception does not carry)
Raise(step, type) == [kind |-> "raise", at |-> step, type |-> type]

\* os.urandom(4).hex() at line 455
RandomSuffixes == {<<"0", "0">>, <<"f", "f">>}

\* int(x) of a time in seconds: truncation toward zero
IntSeconds(t) == IF t >= 0 THEN t \div 100 ELSE -((-t) \div 100)

StrInt(n) == IF n < 0 THEN <<"-">> \o Str(-n) ELSE Str(n)

\* line 455: f"reel_{int(start_time)}_{int(end_time)}_{os.urandom(4).hex()}.mp4"
GeneratedFilename(start_time, end_time, suffix) ==
    <<"r", "e", "e", "l", "_">> \o StrInt(IntSeconds(start_time)) \o <<"_">>
        \o StrInt(IntSeconds(end_time)) \o <<"_">> \o suffix
        \o <<".", "m", "p", "4">>

AfterRaiseGoOn(step) ==
    IF step = "Extract" THEN "Transform"
    ELSE IF step = "Transform" THEN "Caption"
    ELSE "Finally"

\* lines 475-484: an exception raised by a step leaves the try block; the
\* except clause logs it and the finally clause runs
AfterRaise(step) == "Finally"

\* line 398 and the locals of a fresh call
EnterCall(args) ==
    /\ call' = args
    /\ pc' = "Extract"
    /\ clip' = NoClip
    /\ temp_clips' = <<>>
    /\ opened' = {}
    /\ closed' = {}
    /\ adjusted_captions' = <<>>
    /\ caption_log' = <<>>
    /\ result' = NoResult

\* lines 404-405
Extract ==
    /\ pc = "Extract"
    /\ LET o == ExtractOutcome(video, call.start_time, call.end_time)
       IN  /\ opened' = opened \cup o.opened
           /\ IF o.raised
              THEN /\ result' = Raise("Extract", o.type)
                   /\ pc' = AfterRaise("Extract")
                   /\ UNCHANGED <<clip, temp_clips>>
              ELSE /\ clip' = [kind |-> "trimmed", size |-> video.size,
                               duration |-> o.duration, overlays |-> <<>>]
                   /\ temp_clips' = Append(temp_clips, "trimmed")
                   /\ pc' = "Transform"
                   /\ UNCHANGED result
    /\ UNCHANGED <<call, closed, adjusted_captions, caption_log, files, log>>
    /\ UNCHANGED <<inputVars, output_dir, batchVars, fnVars, response, extVars>>

\* line 408
Transform ==
    /\ pc = "Transform"
    /\ \E o \in ResizeOutcomes(clip.size, call.resize_method) :
          IF o.raised
          THEN /\ result' = Raise("Transform", o.type)
               /\ pc' = AfterRaise("Transform")
               /\ UNCHANGED <<clip, opened>>
          ELSE /\ clip' = IF o.fresh
                          THEN [clip EXCEPT !.kind = "transformed", !.size = o.size]
                          ELSE clip
               /\ opened' = IF o.fresh THEN opened \cup {"transformed"} ELSE opened
               /\ pc' = "Caption"
               /\ UNCHANGED result
    /\ UNCHANGED <<call, temp_clips, closed, adjusted_captions, caption_log,
                   files, log>>
    /\ UNCHANGED <<inputVars, output_dir, batchVars, fnVars, response, extVars>>

AddCaptionsAlwaysComposite(c, caps, outcomes) ==
    LET loop == CaptionLoop(caps, c.duration, outcomes, 1)
    IN  [clip |-> [c EXCEPT !.kind = "composited",
                            !.overlays = loop.caption_clips],
         warnings |-> loop.warnings]

\* add_captions(clip, captions), lines 307-371: the clip it returns and the
\* warnings it logs
AddCaptions(c, caps, outcomes) ==
    LET loop == CaptionLoop(caps, c.duration, outcomes, 1)
    IN  IF caps = <<>> \/ loop.caption_clips = <<>>
        THEN [clip |-> c, warnings |-> loop.warnings]
        ELSE [clip |-> [c EXCEPT !.kind = "composited",
                                 !.overlays = loop.caption_clips],
              warnings |-> loop.warnings]

\* lines 411-451
Caption ==
    /\ pc = "Caption"
    /\ IF call.add_captions /\ call.captions # <<>>
       THEN LET adjusted == AdjustCaptions(call.captions, call.start_time,
                                           call.end_time)
            IN  /\ adjusted_captions' = adjusted
                /\ IF adjusted # <<>>
                   THEN \E outcomes \in [DOMAIN adjusted -> TextClipOutcomes] :
                           LET captioned == AddCaptions(clip, adjusted, outcomes)
                           IN  /\ clip' = captioned.clip
                               /\ caption_log' = captioned.warnings
                               /\ opened' = IF captioned.clip.kind = "composited"
                                            THEN opened \cup {"composited"}
                                            ELSE opened
                   ELSE UNCHANGED <<clip, caption_log, opened>>
       ELSE UNCHANGED <<adjusted_captions, caption_log, clip, opened>>
    /\ pc' = "Encode"
    /\ UNCHANGED <<call, temp_clips, closed, result, files, log>>
    /\ UNCHANGED <<inputVars, output_dir, batchVars, fnVars, response, extVars>>

\* clip.write_videofile(output_path, ...), line 461: the files after it
WriteFile(fs, output_path, c) ==
    [p \in DOMAIN fs \cup {output_path} |-> IF p = output_path THEN c ELSE fs[p]]

\* lines 453-473; write_videofile may fail
Encode ==
    /\ pc = "Encode"
    /\ \E suffix \in (IF call.output_filename = <<>> THEN RandomSuffixes ELSE {<<>>}),
          written \in BOOLEAN :
          LET output_filename ==
                  IF call.output_filename = <<>>
                  THEN GeneratedFilename(call.start_time, call.end_time, suffix)
                  ELSE call.output_filename
              output_path == PathJoin(output_dir, output_filename)
          IN  IF written
              THEN /\ files' = WriteFile(files, output_path, clip)
                   /\ result' = [kind |-> "path", path |-> output_path]
                   /\ log' = Append(log, [ev |-> "created", path |-> output_path])
              ELSE /\ result' = Raise("Encode", "OSError")
                   /\ UNCHANGED <<files, log>>
    /\ pc' = "Finally"
    /\ UNCHANGED <<call, clip, temp_clips, opened, closed, adjusted_captions,
                   caption_log>>
    /\ UNCHANGED <<inputVars, output_dir, batchVars, fnVars, response, extVars>>

\* lines 475-484: the finally clause, then the return or the re-raise
Finally ==
    /\ pc = "Finally"
    /\ closed' = closed \cup Range(temp_clips)
    /\ pc' = IF result.kind = "path" THEN "Returned" ELSE "Raised"
    /\ UNCHANGED <<call, clip, temp_clips, opened, adjusted_captions, caption_log,
                   result, files, log>>
    /\ UNCHANGED <<inputVars, output_dir, batchVars, fnVars, response, extVars>>

(***************************************************************************)
(* process_multiple_highlights, lines 507-542.                             *)
(***************************************************************************)
OutputDirRestored(self_output_dir, arg) == self_output_dir

\* lines 507-508: self.output_dir after 'if output_dir:'
OutputDirAfterEnter(self_output_dir, arg) ==
    IF arg # None THEN arg ELSE self_output_dir

\* lines 507-511
BatchEnter ==
    /\ bpc = "called"
    /\ output_dir' = OutputDirAfterEnter(output_dir, out_dir_arg)
    /\ reel_paths' = <<>>
    /\ i' = 0
    /\ bpc' = "loop"
    /\ UNCHANGED <<inputVars, callVars, files, log, fnVars, response, extVars>>

CaptionsForFirstItem(track, idx) == IF idx = 0 THEN track ELSE <<>>

\* line 530: every item is given the caption track of the whole video
CaptionsForItem(track, idx) == track

\* lines 513-533: one turn of the loop up to the call of the pipeline
BeginItem ==
    /\ bpc = "loop"
    /\ pc \in {"idle"}
    /\ i < Len(highlights)
    /\ LET highlight == highlights[i + 1]
           start == Get(highlight, "start", 0)
           end == Get(highlight, "end", 0)
           title == Get(highlight, "title", DefaultTitle(i))
       IN  /\ EnterCall([start_time |-> start, end_time |-> end,
                         captions |-> CaptionsForItem(captions, i),
                         output_filename |-> OutputFilename(i, title),
                         resize_method |-> resize_method,
                         add_captions |-> TRUE])
           /\ log' = Append(log, [ev |-> "processing", item |-> i + 1])
    /\ UNCHANGED <<inputVars, output_dir, batchVars, files, fnVars, response, extVars>>

PrependPath(paths, path) == <<path>> \o paths

\* line 535: reel_paths.append(reel_path)
AppendPath(paths, path) == Append(paths, path)

NextIndexBreak(idx, n) == n

\* lines 537-539: the handler ends with continue
NextIndexAfterError(idx, n) == idx + 1

\* line 535, or lines 537-539
EndItem ==
    /\ bpc = "loop"
    /\ pc \in {"Returned", "Raised"}
    /\ IF pc = "Returned"
       THEN /\ reel_paths' = AppendPath(reel_paths, result.path)
            /\ i' = i + 1
            /\ UNCHANGED log
       ELSE /\ log' = Append(log, [ev |-> "error", item |-> i + 1])
            /\ i' = NextIndexAfterError(i, Len(highlights))
            /\ UNCHANGED reel_paths
    /\ pc' = "idle"
    /\ UNCHANGED <<bpc, call, clip, temp_clips, opened, closed,
                   adjusted_captions, caption_log, result>>
    /\ UNCHANGED <<inputVars, output_dir, files, fnVars, response, extVars>>

\* lines 541-542
BatchReturn ==
    /\ bpc = "loop"
    /\ pc = "idle"
    /\ i >= Len(highlights)
    /\ bpc' = "returned"
    /\ UNCHANGED <<i, reel_paths, callVars, files, log>>
    /\ UNCHANGED <<inputVars, output_dir, fnVars, response, extVars>>

(***************************************************************************)
(* The endpoints of api_routes.py, from the call of the service on.        *)
(***************************************************************************)
\* os.path.basename(path)
RECURSIVE Basename(_)
Basename(path) ==
    IF path = <<>> \/ path[Len(path)] = "/" THEN <<>>
    ELSE Append(Basename(SubSeq(path, 1, Len(path) - 1)), path[Len(path)])

\* f"/api/download-reel/{reel_filename}"
DownloadUrl(reel_filename) ==
    <<"/", "a", "p", "i", "/", "d", "o", "w", "n", "l", "o", "a", "d", "-",
      "r", "e", "e", "l", "/">> \o reel_filename

\* "reels": process_multiple_reels, lines 431-492; "workflow": the three
\* endpoints that answer with the highlights as well,
\* workflow_upload_and_process, workflow_select_and_process and
\* process_highlights_to_reels
BatchEndpoints == {"reels", "workflow"}

\* lines 475-482
ReelInfo(reel_path) ==
    [path |-> reel_path, filename |-> Basename(reel_path),
     download_url |-> DownloadUrl(Basename(reel_path))]

\* lines 641-651, 792-802, 881-891: reels_info, entry idx (0-based) with
\* 'highlight': highlights[i] if i < len(highlights) else None
ReelInfoWorkflow(reel_path, idx, hls) ==
    [path |-> reel_path, filename |-> Basename(reel_path),
     download_url |-> DownloadUrl(Basename(reel_path)),
     highlight |-> IF idx < Len(hls) THEN hls[idx + 1] ELSE None]

\* the body of the answer after process_multiple_highlights has returned:
\* lines 484-488, and lines 660-670, 812-823, 897-903
BatchResponse(endpoint, hls, paths) ==
    IF endpoint = "reels"
    THEN [endpoint |-> endpoint, status |-> 200, success |-> TRUE,
          reels |-> [k \in DOMAIN paths |-> ReelInfo(paths[k])],
          count |-> Len(paths)]
    ELSE [endpoint |-> endpoint, status |-> 200, success |-> TRUE,
          highlights_count |-> Len(hls), reels_created |-> Len(paths),
          reels |-> [k \in DOMAIN paths |-> ReelInfoWorkflow(paths[k], k - 1, hls)]]

\* the endpoint answers
Respond ==
    /\ bpc = "returned"
    /\ \E endpoint \in BatchEndpoints :
          response' = BatchResponse(endpoint, highlights, reel_paths)
    /\ bpc' = "responded"
    /\ UNCHANGED <<i, reel_paths, callVars, files, log>>
    /\ UNCHANGED <<inputVars, output_dir, fnVars, extVars>>

\* process_single_reel, lines 416-429: the answer after
\* process_highlight_to_reel has returned or raised; 'error' is str(e)
RespondSingle ==
    /\ bpc = "none"
    /\ pc \in {"Returned", "Raised"}
    /\ response = None
    /\ response' = IF pc = "Returned"
                   THEN [endpoint |-> "reel", status |-> 200, success |-> TRUE,
                         reel_path |-> result.path,
                         download_url |-> DownloadUrl(Basename(result.path)),
                         filename |-> Basename(result.path)]
                   ELSE [endpoint |-> "reel", status |-> 500, success |-> FALSE,
                         error |-> result.type]
    /\ UNCHANGED <<inputVars, output_dir, batchVars, callVars, files, log, fnVars,
                   extVars>>

(***************************************************************************)
(* Download of an HLS stream: _download_hls_video, lines 87-125.           *)
(***************************************************************************)
\* What subprocess.run (lines 99-104) does: the tool cannot be started
\* ("absent": FileNotFoundError), it is killed after 600 s ("timeout":
\* TimeoutExpired), or it exits with a return code; and what is at
\* output_path afterwards.
HlsRuns ==
    {[launch |-> "absent", returncode |-> 0, output |-> "missing"]}
    \cup {[launch |-> "timeout", returncode |-> 0, output |-> o] :
              o \in {"missing", "data"}}
    \cup {[launch |-> "exit", returncode |-> c, output |-> o] :
              c \in {0, 1}, o \in {"missing", "empty", "data"}}

\* the runs that fail though the tool is there
TransientRuns ==
    {run \in HlsRuns :
        /\ run.launch # "absent"
        /\ ~(run.launch = "exit" /\ run.returncode = 0 /\ run.output = "data")}

\* _download_hls_video(hls_url, output_path): what it returns or raises. An
\* exception is given by its Python type and by the message it is built with.
DownloadHls(run) ==
    LET raise(message) ==
            [kind |-> "raise", type |-> "Exception", message |-> message]
    IN  IF run.launch = "absent" THEN raise("FFmpeg is not installed")
        ELSE IF run.launch = "timeout" THEN raise("Video download timed out")
        ELSE IF run.returncode # 0 THEN raise("FFmpeg failed to download")
        ELSE IF run.output \in {"missing", "empty"}
        THEN raise("Downloaded file is empty")
        ELSE [kind |-> "path"]

(***************************************************************************)
(* The captions of the workflow endpoints: workflow_upload_and_process,    *)
(* lines 584-606, and workflow_select_and_process, lines 751-773.          *)
(***************************************************************************)
\* line 603: the 5.0 of min(duration, 5.0)
DemoCaptionLength == 500

DemoCaptionWholeHighlight(highlight) ==
    [text |-> Get(highlight, "title", <<>>),
     start |-> Get(highlight, "start", 0),
     end |-> Get(highlight, "end", 0)]

\* lines 593-604: the caption made from one highlight
DemoCaption(highlight) ==
    LET title == Get(highlight, "title", <<>>)
        start == Get(highlight, "start", 0)
        end == Get(highlight, "end", 0)
        duration == end - start
    IN  [text |-> title, start |-> start,
         end |-> start + Min(duration, DemoCaptionLength)]

Hi == <<"h", "i">>

\* what get_video_transcription returns: no segment, or one
Transcriptions == {<<>>, <<[text |-> Hi, start |-> 200, end |-> 400]>>}

\* lines 584-606: captions as handed to the renderer; transcription is what
\* get_video_transcription returns
WorkflowCaptions(add_captions, transcription, hls) ==
    IF ~add_captions THEN <<>>
    ELSE IF transcription = <<>> /\ hls # <<>>
    THEN [k \in DOMAIN hls |-> DemoCaption(hls[k])]
    ELSE transcription

(***************************************************************************)
(* A batch call on a fresh service object.                                 *)
(***************************************************************************)
ReelsDir == <<"/", "r">>

TempDir == <<"/", "t">>

BatchVideos ==
    {[exists |-> e, duration |-> 12000, size |-> <<1920, 1080>>] :
        e \in BOOLEAN}

HighlightInputs ==
    { [title |-> <<"a">>, start |-> 0, end |-> 1500],
      [title |-> <<"a">>, start |-> 5000, end |-> 9000],
      [title |-> <<"b", "!">>, start |-> 13000, end |-> 14000],
      [title |-> <<"1", " ">>] }

BatchCaptionTracks ==
    { <<>>,
      <<[text |-> <<"h", "i">>, start |-> 200, end |-> 400]>>,
      <<[text |-> <<"h", "i">>, start |-> 1495, end |-> 1600],
        [text |-> <<" ", " ">>, start |-> 5500, end |-> 6000]>> }

ResizeMethods == {"crop", "fit", "stretch"}

InitFn ==
    /\ fn_in = None
    /\ fn_out = None

\* no upload, no workflow request, no concurrent render, no earlier call
InitExt ==
    /\ calls = <<>>
    /\ upc = "none"
    /\ elapsed = 0
    /\ r = None
    /\ route = "none"
    /\ wpc = "none"
    /\ temp_files = {}
    /\ video_path = None
    /\ renders = <<>>

InitNoCall ==
    /\ call = None
    /\ pc = "idle"
    /\ clip = NoClip
    /\ temp_clips = <<>>
    /\ opened = {}
    /\ closed = {}
    /\ adjusted_captions = <<>>
    /\ caption_log = <<>>
    /\ result = NoResult

Init ==
    /\ video \in BatchVideos
    /\ highlights \in SeqsUpTo(HighlightInputs, MaxHighlights)
    /\ captions \in BatchCaptionTracks
    /\ resize_method \in ResizeMethods
    /\ add_captions_flag = TRUE
    \* every caller passes output_dir (api_routes.py, lines 470, 636, 789, 880)
    /\ out_dir_arg = ReelsDir
    /\ output_dir = TempDir
    /\ bpc = "called"
    /\ i = 0
    /\ reel_paths = <<>>
    /\ InitNoCall
    /\ files = <<>>
    /\ log = <<>>
    /\ InitFn
    /\ response = None
    /\ InitExt

Next ==
    \/ BatchEnter
    \/ BeginItem
    \/ Extract
    \/ Transform
    \/ Caption
    \/ Encode
    \/ Finally
    \/ EndItem
    \/ BatchReturn
    \/ Respond

Spec == Init /\ [][Next]_vars

(***************************************************************************)
(* A single call of process_highlight_to_reel as the endpoint              *)
(* process_single_reel makes it (api_routes.py, lines 404-412): captions   *)
(* is None when add_captions is false.                                     *)
(***************************************************************************)
WindowTimes == {0, 1000, 2000}

CaptionStarts == {500, 1000}

CaptionEnds == {800, 1000, 2500}

CaptionInputs ==
    {[text |-> <<"h", "i">>, start |-> s, end |-> e] :
        s \in CaptionStarts, e \in CaptionEnds}
    \cup {[text |-> <<"h", "i">>, start |-> s] : s \in CaptionStarts}

SingleVideo == [exists |-> TRUE, duration |-> 2000, size |-> <<1920, 1080>>]

InitSingle ==
    /\ video \in {SingleVideo, [SingleVideo EXCEPT !.exists = FALSE]}
    /\ highlights = <<>>
    /\ add_captions_flag \in BOOLEAN
    /\ captions \in IF add_captions_flag
                    THEN SeqsUpTo(CaptionInputs, MaxCaptions)
                    ELSE {None}
    /\ resize_method = "crop"
    /\ out_dir_arg = None
    /\ output_dir = ReelsDir
    /\ bpc = "none"
    /\ i = 0
    /\ reel_paths = <<>>
    /\ \E start \in WindowTimes, end \in WindowTimes :
          call = [start_time |-> start, end_time |-> end, captions |-> captions,
                  output_filename |-> None, resize_method |-> resize_method,
                  add_captions |-> add_captions_flag]
    /\ pc = "Extract"
    /\ clip = NoClip
    /\ temp_clips = <<>>
    /\ opened = {}
    /\ closed = {}
    /\ adjusted_captions = <<>>
    /\ caption_log = <<>>
    /\ result = NoResult
    /\ files = <<>>
    /\ log = <<>>
    /\ InitFn
    /\ response = None
    /\ InitExt

NextSingle ==
    \/ Extract
    \/ Transform
    \/ Caption
    \/ Encode
    \/ Finally
    \/ RespondSingle

SpecSingle == InitSingle /\ [][NextSingle]_vars

(***************************************************************************)
(* Two calls on one service object that was constructed without an         *)
(* output_dir (line 35: the temp directory): a batch call with or without  *)
(* output_dir, then a call without output_dir, either a batch call or a     *)
(* process_highlight_to_reel call without output_filename.                  *)
(***************************************************************************)
ReuseHighlights == {[title |-> <<"a">>, start |-> 0, end |-> 1500]}

BatchCall(arg) == [fn |-> "process_multiple_highlights", output_dir |-> arg]

ReelCall == [fn |-> "process_highlight_to_reel", output_dir |-> None]

InitReuse ==
    /\ video = [exists |-> TRUE, duration |-> 12000, size |-> <<1920, 1080>>]
    /\ highlights \in SeqsUpTo(ReuseHighlights, MaxHighlights)
    /\ captions = <<>>
    /\ resize_method = "crop"
    /\ add_captions_flag = TRUE
    /\ out_dir_arg \in {None, ReelsDir}
    /\ output_dir = TempDir
    /\ bpc = "called"
    /\ i = 0
    /\ reel_paths = <<>>
    /\ InitNoCall
    /\ files = <<>>
    /\ log = <<>>
    /\ InitFn
    /\ response = None
    /\ calls = <<BatchCall(out_dir_arg)>>
    /\ upc = "none" /\ elapsed = 0 /\ r = None
    /\ route = "none" /\ wpc = "none" /\ temp_files = {} /\ video_path = None
    /\ renders = <<>>

\* the caller calls process_multiple_highlights again, without output_dir
CallBatchAgain ==
    /\ bpc = "returned"
    /\ Len(calls) = 1
    /\ calls' = Append(calls, BatchCall(None))
    /\ out_dir_arg' = None
    /\ bpc' = "called"
    /\ UNCHANGED <<video, highlights, captions, resize_method, add_captions_flag>>
    /\ UNCHANGED <<i, reel_paths, callVars, output_dir, files, log, fnVars,
                   response, uploadVars, workflowVars, renders>>

\* the caller calls process_highlight_to_reel on the same object
CallReelAfter ==
    /\ bpc = "returned"
    /\ Len(calls) = 1
    /\ calls' = Append(calls, ReelCall)
    /\ bpc' = "none"
    /\ EnterCall([start_time |-> 0, end_time |-> 1500, captions |-> None,
                  output_filename |-> None, resize_method |-> resize_method,
                  add_captions |-> add_captions_flag])
    /\ UNCHANGED <<inputVars, i, reel_paths, output_dir, files, log, fnVars,
                   response, uploadVars, workflowVars, renders>>

NextReuse ==
    \/ BatchEnter
    \/ BeginItem
    \/ Extract
    \/ Transform
    \/ Caption
    \/ Encode
    \/ Finally
    \/ EndItem
    \/ BatchReturn
    \/ CallBatchAgain
    \/ CallReelAfter

SpecReuse == InitReuse /\ [][NextReuse]_vars

(***************************************************************************)
(* Two batch requests handled at the same time (app.run, app.py line 67,   *)
(* serves each request on a thread of its own). Each request has its own   *)
(* VideoEditorService, made with the same directory (api_routes.py, lines  *)
(* 776-778), and walks its highlights; of each item the encoding (lines    *)
(* 457-470 of video_editor_service.py) is what writes files.               *)
(***************************************************************************)
Requests == {1, 2}

ConcurrentTitles == {<<"a">>, <<"b">>}

\* line 465: os.path.join(tempfile.gettempdir(), 'temp-audio.m4a')
TempAudiofile ==
    PathJoin(TempDir, <<"t", "e", "m", "p", "-", "a", "u", "d", "i", "o",
                        ".", "m", "4", "a">>)

InitConcurrent ==
    /\ video = [exists |-> TRUE, duration |-> 12000, size |-> <<1920, 1080>>]
    /\ highlights = <<>>
    /\ captions = <<>>
    /\ resize_method = "crop"
    /\ add_captions_flag = TRUE
    /\ out_dir_arg = ReelsDir
    /\ output_dir = ReelsDir
    /\ bpc = "none"
    /\ i = 0
    /\ reel_paths = <<>>
    /\ InitNoCall
    /\ files = <<>>
    /\ log = <<>>
    /\ InitFn
    /\ response = None
    /\ calls = <<>>
    /\ upc = "none" /\ elapsed = 0 /\ r = None
    /\ route = "none" /\ wpc = "none" /\ temp_files = {} /\ video_path = None
    /\ \E n1 \in 1..MaxHighlights, n2 \in 1..MaxHighlights :
          \E t1 \in [1..n1 -> ConcurrentTitles], t2 \in [1..n2 -> ConcurrentTitles] :
              renders = [q \in Requests |->
                            [titles |-> IF q = 1 THEN t1 ELSE t2,
                             i |-> 0, pc |-> "loop",
                             output_path |-> None, temp_audiofile |-> None]]

\* lines 513-533 and 453-460: request q comes to write_videofile for its
\* next item
StartEncode(q) ==
    /\ renders[q].pc = "loop"
    /\ renders[q].i < Len(renders[q].titles)
    /\ renders' = [renders EXCEPT
          ![q].pc = "encoding",
          ![q].output_path =
              PathJoin(out_dir_arg,
                       OutputFilename(renders[q].i,
                                      renders[q].titles[renders[q].i + 1])),
          ![q].temp_audiofile = TempAudiofile]
    /\ UNCHANGED <<inputVars, output_dir, batchVars, callVars, files, log, fnVars,
                   response, calls, uploadVars, workflowVars>>

\* lines 460-473 and 535: write_videofile of request q returns, and the loop
\* goes on
FinishEncode(q) ==
    /\ renders[q].pc = "encoding"
    /\ renders' = [renders EXCEPT ![q].pc = "loop", ![q].i = renders[q].i + 1,
                                  ![q].output_path = None,
                                  ![q].temp_audiofile = None]
    /\ UNCHANGED <<inputVars, output_dir, batchVars, callVars, files, log, fnVars,
                   response, calls, uploadVars, workflowVars>>

\* lines 541-542
FinishRequest(q) ==
    /\ renders[q].pc = "loop"
    /\ renders[q].i >= Len(renders[q].titles)
    /\ renders' = [renders EXCEPT ![q].pc = "returned"]
    /\ UNCHANGED <<inputVars, output_dir, batchVars, callVars, files, log, fnVars,
                   response, calls, uploadVars, workflowVars>>

NextConcurrent ==
    \/ \E q \in Requests : StartEncode(q)
    \/ \E q \in Requests : FinishEncode(q)
    \/ \E q \in Requests : FinishRequest(q)

SpecConcurrent == InitConcurrent /\ [][NextConcurrent]_vars

(***************************************************************************)
(* upload_video_file, twelvelabs_service.py lines 306-394. Time is in      *)
(* whole seconds here. The arguments are in fn_in, what the call returns   *)
(* is in fn_out.                                                           *)
(***************************************************************************)
\* line 348: time.sleep(2), also at line 392
PollSleep == 2

\* how long one poll request takes, in seconds
RequestSeconds == {0, 1}

Returned(value) == [kind |-> "return", value |-> value]

OnExceptionEscapes(type) == [kind |-> "raise", type |-> type]

\* lines 393-394: except Exception as e: return {"error": str(e)}
OnException(type) == Returned([error |-> type])

\* The JSON bodies of a poll answer: a task object with or without a status
\* and with the video id in one of the places lines 360-365 look at, the
\* empty body (r.text is '', taken as {}); an answer whose body is not JSON
\* has is_json FALSE.
\* None (a JSON null, or what dict.get gives for a missing key) among the
\* strings of a task object
Null == ""

PollTasks ==
    { <<>>,
      [status |-> "pending"],
      [status |-> "failed"],
      [status |-> "error", message |-> "m"],
      [status |-> "ready"],
      [status |-> "ready", video_id |-> "v"],
      [status |-> "completed", data |-> [video_id |-> "v"]],
      [status |-> "completed"] @@ ("_id" :> "v"),
      [status |-> "ready", video_id |-> Null] @@ ("_id" :> "v") }

\* what requests.get does at line 345: it raises, or it returns an answer
PollAnswers ==
    {[kind |-> "raise", type |-> "ConnectionError"]}
    \cup {[kind |-> "response", status_code |-> 500, is_json |-> TRUE,
            body |-> <<>>]}
    \cup {[kind |-> "response", status_code |-> 200, is_json |-> FALSE,
            body |-> <<>>]}
    \cup {[kind |-> "response", status_code |-> 200, is_json |-> TRUE,
            body |-> b] : b \in PollTasks}

\* lines 360-365
VideoIdOf(task) ==
    IF "video_id" \in DOMAIN task THEN task.video_id
    ELSE IF "data" \in DOMAIN task THEN Get(task.data, "video_id", Null)
    ELSE IF "_id" \in DOMAIN task THEN task["_id"]
    ELSE Null

\* lines 346-392: one turn of the loop after the request has returned
\* answer: the call returns (done, with result), or sleeps and polls again
PollTurn(answer, task_id) ==
    IF answer.status_code # 200 THEN [done |-> FALSE]
    ELSE IF ~answer.is_json
    THEN [done |-> TRUE, result |-> OnException("JSONDecodeError")]
    ELSE LET task == answer.body
             status == Get(task, "status", Null)
         IN  IF status \in {"ready", "completed"}
             THEN IF VideoIdOf(task) # Null
                  THEN [done |-> TRUE,
                        result |-> Returned([status |-> status,
                                             video_id |-> VideoIdOf(task),
                                             task_id |-> task_id,
                                             task |-> task])]
                  ELSE [done |-> TRUE,
                        result |-> Returned(
                            [error |-> "Task completed but video_id not found",
                             task |-> task])]
             ELSE IF status \in {"failed", "error"}
             THEN [done |-> TRUE,
                   result |-> Returned([error |-> "Indexing failed",
                                        task |-> task])]
             ELSE [done |-> FALSE]

UploadArguments ==
    {[fn |-> "upload_video_file", api_key |-> k, index_id |-> x,
      file_exists |-> f, timeout_seconds |-> t] :
        k \in BOOLEAN, x \in BOOLEAN, f \in BOOLEAN, t \in 0..MaxTimeout}

InitUpload ==
    /\ video = [exists |-> TRUE, duration |-> 12000, size |-> <<1920, 1080>>]
    /\ highlights = <<>>
    /\ captions = <<>>
    /\ resize_method = "crop"
    /\ add_captions_flag = TRUE
    /\ out_dir_arg = None
    /\ output_dir = TempDir
    /\ bpc = "none"
    /\ i = 0
    /\ reel_paths = <<>>
    /\ InitNoCall
    /\ files = <<>>
    /\ log = <<>>
    /\ fn_in \in UploadArguments
    /\ fn_out = None
    /\ response = None
    /\ calls = <<>>
    /\ upc = "check" /\ elapsed = 0 /\ r = None
    /\ route = "none" /\ wpc = "none" /\ temp_files = {} /\ video_path = None
    /\ renders = <<>>

\* lines 310-315
CheckArguments ==
    /\ upc = "check"
    /\ IF ~fn_in.api_key
       THEN /\ fn_out' = Returned([error |-> "Missing TwelveLabs API key"])
            /\ upc' = "done"
       ELSE IF ~fn_in.index_id
       THEN /\ fn_out' = Returned([error |-> "Missing index_id"])
            /\ upc' = "done"
       ELSE IF ~fn_in.file_exists
       THEN /\ fn_out' = Returned([error |-> "File not found"])
            /\ upc' = "done"
       ELSE /\ upc' = "create"
            /\ UNCHANGED fn_out
    /\ UNCHANGED <<inputVars, output_dir, batchVars, callVars, files, log, fn_in,
                   response, calls, elapsed, r, workflowVars, renders>>

\* what the creation of the task (lines 325-338) comes to: open or
\* requests.post raises, the answer has another status than 200 and 201, the
\* answer names no task id, or it names one
CreateOutcomes == {"raise", "rejected", "no_task_id", "created"}

\* lines 325-343
CreateTask ==
    /\ upc = "create"
    /\ \E o \in CreateOutcomes :
          IF o = "created"
          THEN /\ upc' = "poll"
               /\ UNCHANGED fn_out
          ELSE /\ upc' = "done"
               /\ fn_out' = IF o = "raise" THEN OnException("ConnectionError")
                             ELSE IF o = "rejected"
                             THEN Returned([error |-> "Failed to create upload task"])
                             ELSE Returned([error |-> "No task id returned"])
    /\ elapsed' = 0
    /\ UNCHANGED <<inputVars, output_dir, batchVars, callVars, files, log, fn_in,
                   response, calls, r, workflowVars, renders>>

\* lines 344-392: one turn of the while loop
Poll ==
    /\ upc = "poll"
    /\ elapsed < fn_in.timeout_seconds
    /\ \E answer \in PollAnswers, d \in RequestSeconds :
          /\ r' = answer
          /\ IF answer.kind = "raise"
             THEN /\ fn_out' = OnException(answer.type)
                  /\ upc' = "done"
                  /\ elapsed' = elapsed + d
             ELSE LET turn == PollTurn(answer, "t")
                  IN  IF turn.done
                      THEN /\ fn_out' = turn.result
                           /\ upc' = "done"
                           /\ elapsed' = elapsed + d
                      ELSE /\ elapsed' = elapsed + d + PollSleep
                           /\ UNCHANGED <<fn_out, upc>>
    /\ UNCHANGED <<inputVars, output_dir, batchVars, callVars, files, log, fn_in,
                   response, calls, workflowVars, renders>>

\* lines 344 and 391-392: the loop condition fails
TimeOut ==
    /\ upc = "poll"
    /\ elapsed >= fn_in.timeout_seconds
    /\ fn_out' = Returned([error |-> "Upload timed out", task_id |-> "t"])
    /\ upc' = "done"
    /\ UNCHANGED <<inputVars, output_dir, batchVars, callVars, files, log, fn_in,
                   response, calls, elapsed, r, workflowVars, renders>>

NextUpload ==
    \/ CheckArguments
    \/ CreateTask
    \/ Poll
    \/ TimeOut

SpecUpload == InitUpload /\ [][NextUpload]_vars

(***************************************************************************)
(* One request to a workflow endpoint of api_routes.py, from the point     *)
(* where its parameters have been accepted: workflow_upload_and_process    *)
(* (lines 549-685), workflow_select_and_process (lines 712-829) and        *)
(* process_highlights_to_reels (lines 855-909). The calls of the services  *)
(* are modelled by what they return or raise; temp_files maps each file   *)
(* of the request in the temp directory to what it holds.                  *)
(***************************************************************************)
WorkflowRoutes == {"upload-and-process", "select-and-process", "process-highlights"}

\* tmp_file_path, line 551
TmpFilePath == <<"/", "t", "/", "u">>

\* the output_path of download_video, line 50
DownloadPath == <<"/", "t", "/", "v">>

WorkflowHighlightInputs ==
    { [title |-> <<"a">>, start |-> 0, end |-> 1500],
      [title |-> <<"b">>, start |-> 5000, end |-> 5300] }

\* os.remove(path) on the files of the temp directory
Remove(fs, path) == [f \in DOMAIN fs \ {path} |-> fs[f]]

\* a file is written (or created) at path
Put(fs, path, content) ==
    [f \in DOMAIN fs \cup {path} |-> IF f = path THEN content ELSE fs[f]]

\* lines 675-680: the finally clause of workflow_upload_and_process; the
\* other two endpoints have none
WorkflowFinally(fs) ==
    IF route = "upload-and-process" THEN Remove(fs, TmpFilePath) ELSE fs

\* lines 682-685, 826-829, 907-909: an exception of any step is answered
\* with status 500
Failed500(type) ==
    [endpoint |-> route, status |-> 500, success |-> FALSE, error |-> type]

Failed4xx(status, error) ==
    [endpoint |-> route, status |-> status, success |-> FALSE, error |-> error]

InitWorkflow ==
    /\ video = [exists |-> TRUE, duration |-> 12000, size |-> <<1920, 1080>>]
    /\ highlights = <<>>
    /\ captions = <<>>
    /\ resize_method = "crop"
    /\ add_captions_flag \in BOOLEAN
    /\ out_dir_arg = ReelsDir
    /\ output_dir = ReelsDir
    /\ bpc = "none"
    /\ i = 0
    /\ reel_paths = <<>>
    /\ InitNoCall
    /\ files = <<>>
    /\ log = <<>>
    /\ InitFn
    /\ response = None
    /\ calls = <<>>
    /\ upc = "none" /\ elapsed = 0 /\ r = None
    /\ route \in WorkflowRoutes
    /\ wpc = IF route = "upload-and-process" THEN "save"
             ELSE IF route = "select-and-process" THEN "details"
             ELSE "highlights"
    /\ temp_files = <<>>
    /\ video_path = None
    /\ renders = <<>>

\* lines 549-553: the temporary file is created, then upload_file.save
\* writes the upload into it, or raises
SaveUpload ==
    /\ wpc = "save"
    /\ \E saved \in BOOLEAN :
          IF saved
          THEN /\ temp_files' = Put(temp_files, TmpFilePath, "upload")
               /\ wpc' = "upload"
               /\ UNCHANGED response
          ELSE /\ temp_files' = Put(temp_files, TmpFilePath, "empty")
               /\ wpc' = "done"
               /\ response' = Failed500("OSError")
    /\ UNCHANGED <<inputVars, output_dir, batchVars, callVars, files, log, fnVars,
                   calls, uploadVars, route, video_path, renders>>

\* lines 555-565: upload_video_file returns a dict with 'error' or one with
\* 'video_id'
UploadAndIndex ==
    /\ wpc = "upload"
    /\ \E error \in BOOLEAN :
          IF error
          THEN /\ response' = Failed4xx(400, "Upload failed")
               /\ temp_files' = WorkflowFinally(temp_files)
               /\ wpc' = "done"
          ELSE /\ wpc' = "highlights"
               /\ UNCHANGED <<response, temp_files>>
    /\ UNCHANGED <<inputVars, output_dir, batchVars, callVars, files, log, fnVars,
                   calls, uploadVars, route, video_path, renders>>

\* workflow_select_and_process, lines 712-733: get_video_details gives
\* None, details without a video URL, or details with one
VerifyVideo ==
    /\ wpc = "details"
    /\ route = "select-and-process"
    /\ \E details \in {"none", "no_url", "url"} :
          IF details = "url"
          THEN /\ wpc' = "highlights"
               /\ UNCHANGED response
          ELSE /\ wpc' = "done"
               /\ response' = IF details = "none"
                               THEN Failed4xx(404, "Video not found in index")
                               ELSE Failed4xx(400, "Video URL not available")
    /\ UNCHANGED <<inputVars, output_dir, batchVars, callVars, files, log, fnVars,
                   calls, uploadVars, route, temp_files, video_path, renders>>

\* lines 569-606, 736-773, 857-868: generate_highlights raises or returns
\* its highlights; then the captions are fetched (the transcription is tr)
GenerateHighlights ==
    /\ wpc = "highlights"
    /\ \/ /\ response' = Failed500("Exception")
          /\ temp_files' = WorkflowFinally(temp_files)
          /\ wpc' = "done"
          /\ UNCHANGED <<highlights, captions>>
       \/ /\ highlights' = <<>>
          /\ response' = Failed4xx(400, "No highlights generated")
          /\ temp_files' = WorkflowFinally(temp_files)
          /\ wpc' = "done"
          /\ UNCHANGED captions
       \/ \E n \in 1..MaxHighlights, tr \in Transcriptions :
             \E hls \in [1..n -> WorkflowHighlightInputs] :
                 /\ highlights' = hls
                 /\ captions' = IF route = "process-highlights"
                                 THEN (IF add_captions_flag THEN tr ELSE <<>>)
                                 ELSE WorkflowCaptions(add_captions_flag, tr, hls)
                 /\ wpc' = IF route = "upload-and-process" THEN "details"
                           ELSE "download"
                 /\ UNCHANGED <<response, temp_files>>
    /\ UNCHANGED <<video, resize_method, add_captions_flag, out_dir_arg,
                   output_dir, batchVars, callVars, files, log, fnVars,
                   calls, uploadVars, route, video_path, renders>>

\* workflow_upload_and_process, lines 608-618: without a video URL the
\* uploaded file is the source
ResolveSource ==
    /\ wpc = "details"
    /\ route = "upload-and-process"
    /\ \E has_url \in BOOLEAN :
          IF has_url
          THEN /\ wpc' = "download"
               /\ UNCHANGED video_path
          ELSE /\ wpc' = "process"
               /\ video_path' = TmpFilePath
    /\ UNCHANGED <<inputVars, output_dir, batchVars, callVars, files, log, fnVars,
                   response, calls, uploadVars, route, temp_files, renders>>

\* What download_video (video_editor_service.py, lines 48-72) comes to: it
\* returns the path of the file it wrote, or it raises with nothing at the
\* path, or it raises with a part of the video at the path (a plain
\* download opens the file before it reads the stream, lines 63-65; the
\* remuxing tool writes while it runs, lines 99-108).
DownloadOutcomes == {"downloaded", "raise", "raise_partial"}

\* lines 623, 779, 876
Download ==
    /\ wpc = "download"
    /\ \E o \in DownloadOutcomes :
          IF o = "downloaded"
          THEN /\ temp_files' = Put(temp_files, DownloadPath, "video")
               /\ video_path' = DownloadPath
               /\ wpc' = "process"
               /\ UNCHANGED response
          ELSE /\ temp_files' =
                      WorkflowFinally(IF o = "raise_partial"
                                      THEN Put(temp_files, DownloadPath, "partial")
                                      ELSE temp_files)
               /\ response' = Failed500("Exception")
               /\ wpc' = "done"
               /\ UNCHANGED video_path
    /\ UNCHANGED <<inputVars, output_dir, batchVars, callVars, files, log, fnVars,
                   calls, uploadVars, route, renders>>

\* the reels process_multiple_highlights returns: those of the highlights
\* in rendered, in order
ReelsOf(hls, rendered) ==
    LET items == SelectSeq([k \in DOMAIN hls |-> k], LAMBDA k : k \in rendered)
    IN  [k \in DOMAIN items |->
            PathJoin(ReelsDir, OutputFilename(items[k] - 1,
                                              hls[items[k]].title))]

\* lines 626-638, 783-791, 878-884: process_multiple_highlights returns the
\* paths of the reels it could render, or raises (os.makedirs, line 509)
ProcessHighlights ==
    /\ wpc = "process"
    /\ \/ /\ response' = Failed500("OSError")
          /\ temp_files' = WorkflowFinally(temp_files)
          /\ wpc' = "done"
          /\ UNCHANGED reel_paths
       \/ \E rendered \in SUBSET DOMAIN highlights :
             /\ reel_paths' = ReelsOf(highlights, rendered)
             /\ wpc' = "cleanup"
             /\ UNCHANGED <<response, temp_files>>
    /\ UNCHANGED <<inputVars, output_dir, bpc, i, callVars, files, log, fnVars,
                   calls, uploadVars, route, video_path, renders>>

\* lines 642-673, 795-823, 886-905: the answer is built, the source is
\* removed (cleanup_temp_files), and in workflow_upload_and_process the
\* uploaded file as well
CleanupAndAnswer ==
    /\ wpc = "cleanup"
    /\ temp_files' = WorkflowFinally(Remove(temp_files, video_path))
    /\ response' = [endpoint |-> route, status |-> 200, success |-> TRUE,
                    highlights_count |-> Len(highlights),
                    reels_created |-> Len(reel_paths),
                    reels |-> [k \in DOMAIN reel_paths |->
                                  ReelInfoWorkflow(reel_paths[k], k - 1,
                                                   highlights)]]
    /\ wpc' = "done"
    /\ UNCHANGED <<inputVars, output_dir, batchVars, callVars, files, log, fnVars,
                   calls, uploadVars, route, video_path, renders>>

NextWorkflow ==
    \/ SaveUpload
    \/ UploadAndIndex
    \/ VerifyVideo
    \/ GenerateHighlights
    \/ ResolveSource
    \/ Download
    \/ ProcessHighlights
    \/ CleanupAndAnswer

SpecWorkflow == InitWorkflow /\ [][NextWorkflow]_vars

(***************************************************************************)
(* The pure functions of the service, each applied on its own to inputs    *)
(* drawn from bounded sets.                                                *)
(***************************************************************************)
NamingChars == {"1", "_", "a"}

SlugChars == {"a", "1", " ", "-", "_", "!", "#", "/", "."}

EpicSave == <<"E", "p", "i", "c", " ", "S", "a", "v", "e", "!", " ", "#", "1">>

Dims == (0..MaxDim) \cup {REEL_WIDTH, REEL_HEIGHT}

NamingTitles ==
    {[title |-> t] : t \in SeqsUpTo(NamingChars, MaxTitleLen)} \cup {<<>>}

\* two positions a < b of one list of highlights, with their highlights
NamingInput(a, b, h, g) ==
    [fn |-> "filenames", i1 |-> a, i2 |-> b, h1 |-> h, h2 |-> g]

SlugInputs ==
    {[fn |-> "safe_title", title |-> t] :
        t \in SeqsUpTo(SlugChars, MaxSlugLen) \cup {EpicSave}}

\* the name and the path of item idx + 1 of a batch writing under dir
OutputPathInput(idx, title, dir) ==
    [fn |-> "output_path", idx |-> idx, title |-> title, dir |-> dir]

ResizeInputs ==
    {[fn |-> "resize", size |-> <<w, h>>, method |-> m] :
        w \in Dims, h \in Dims, m \in ResizeMethods}

\* Analysis texts: up to MaxItems entries, each a title in bold and a range in
\* brackets as the prompt of generate_highlights (line 96) asks for them, or
\* a malformed variant of one, all joined by one separator. Each title comes
\* with its seconds, and with what it is after trimming and what the seconds
\* are worth.
BigSave == <<"B", "i", "g", " ", "S", "a", "v", "e">>

ParseTitles ==
    { [title |-> BigSave, trimmed |-> BigSave,
       start |-> <<"1", "2">>, end |-> <<"2", "7">>,
       start_value |-> 1200, end_value |-> 2700],
      [title |-> <<" ", "b", " ">>, trimmed |-> <<"b">>,
       start |-> <<"3", "0">>, end |-> <<"1", "0">>,
       start_value |-> 3000, end_value |-> 1000] }

\* "plain": the title and the range; "full": with colon, blank, unit and
\* clock; "mixed": with colon and clock only
ParseStyles == {"plain", "full", "mixed"}

\* "ok" matches the pattern; "dash" has '-' for '~'; "emptyclock" has '()'
\* after the first number; "newline" has a line break inside the title
ParseKinds == {"ok", "dash", "emptyclock", "newline"}

ParseItems ==
    {[t |-> t, style |-> st, kind |-> kd] :
        t \in ParseTitles, st \in ParseStyles, kd \in ParseKinds}

ParseSeparators == {<<"\n">>, <<" ">>}

ClockOf(item, digits) ==
    IF item.style = "full" THEN <<" ", "(", "0", "0", ":">> \o digits \o <<")">>
    ELSE IF item.style = "mixed" THEN <<"(", "1", ":", "5", "9", ")">>
    ELSE <<>>

ItemText(item) ==
    LET bold == <<"*", "*">>
        title == IF item.kind = "newline"
                 THEN item.t.title \o <<"\n">> \o item.t.title
                 ELSE item.t.title
        colon == IF item.style \in {"full", "mixed"} THEN <<":">> ELSE <<>>
        blank == IF item.style = "full" THEN <<" ">> ELSE <<>>
        unit == IF item.style = "full" THEN <<"s">> ELSE <<>>
        tilde == IF item.kind = "dash" THEN <<"-">> ELSE <<"~">>
        first == IF item.kind = "emptyclock" THEN <<"(", ")">>
                 ELSE ClockOf(item, item.t.start)
    IN  bold \o title \o bold \o colon \o blank \o <<"[">>
            \o item.t.start \o unit \o first \o tilde
            \o item.t.end \o unit \o ClockOf(item, item.t.end) \o <<"]">>

RECURSIVE TextOf(_, _)
TextOf(items, sep) ==
    IF items = <<>> THEN <<>>
    ELSE IF Len(items) = 1 THEN ItemText(items[1])
    ELSE ItemText(items[1]) \o sep \o TextOf(Tail(items), sep)

\* add_captions on its own: a clip of 1 s, and captions on every side of the
\* inclusion rule
ClipOfOneSecond ==
    [kind |-> "transformed", size |-> <<REEL_WIDTH, REEL_HEIGHT>>,
     duration |-> 100, overlays |-> <<>>]

AddCaptionsCaptions ==
    { [text |-> Hi, start |-> 0, end |-> 50],
      [text |-> <<" ", "h", "i", " ">>, start |-> 85, end |-> 150],
      [text |-> Hi, start |-> 95, end |-> 150],
      [text |-> Hi, start |-> 0, end |-> 5],
      [text |-> Hi, start |-> -50, end |-> 50],
      [text |-> Hi, start |-> 100, end |-> 150],
      [text |-> Hi, start |-> 50, end |-> 50],
      [text |-> Hi, start |-> 60, end |-> 40],
      [text |-> <<" ", " ">>, start |-> 0, end |-> 50],
      [start |-> 0, end |-> 50],
      [text |-> Hi, start |-> 50],
      [text |-> Hi] }

AddCaptionsInput(caps) ==
    [fn |-> "add_captions", clip |-> ClipOfOneSecond, captions |-> caps]

\* create_caption_clip on its own: texts of up to MaxTextLen characters, as
\* add_captions passes them (line 317: trimmed, and not empty)
CaptionTextChars == {"a", " "}

CaptionClipInput(text) == [fn |-> "caption_clip", text |-> text, duration |-> 100]

\* the captions of a workflow: highlights of 15 s, 3 s and 5 s, one that ends
\* before it starts and one without a title
DemoHighlightInputs ==
    { [title |-> <<"a">>, start |-> 0, end |-> 1500],
      [title |-> <<"a">>, start |-> 5000, end |-> 5300],
      [title |-> <<"b">>, start |-> 100, end |-> 600],
      [title |-> <<"b">>, start |-> 900, end |-> 400],
      [start |-> 0, end |-> 100] }

WorkflowCaptionsInput(flag, transcription, hls) ==
    [fn |-> "workflow_captions", add_captions |-> flag,
     transcription |-> transcription, highlights |-> hls]

DownloadHlsInputs == {[fn |-> "download_hls", run |-> run] : run \in HlsRuns}

ParseInput(items, sep) ==
    [fn |-> "parse", items |-> items, sep |-> sep, text |-> TextOf(items, sep)]

InitPure ==
    /\ video = SingleVideo
    /\ highlights = <<>>
    /\ captions = <<>>
    /\ resize_method = "crop"
    /\ add_captions_flag = TRUE
    /\ out_dir_arg = None
    /\ output_dir = TempDir
    /\ bpc = "none"
    /\ i = 0
    /\ reel_paths = <<>>
    /\ InitNoCall
    /\ files = <<>>
    /\ log = <<>>
    /\ \/ fn_in \in SlugInputs \cup ResizeInputs \cup DownloadHlsInputs
       \/ \E idx \in {0, 9}, n \in 0..MaxSlugLen :
             \E title \in [1..n -> SlugChars] :
                 fn_in = OutputPathInput(idx, title, ReelsDir)
       \/ \E a \in 0..MaxIndex, b \in 0..MaxIndex :
             /\ a < b
             /\ \E h \in NamingTitles, g \in NamingTitles :
                   fn_in = NamingInput(a, b, h, g)
       \/ \E n \in 0..MaxCaptions :
             \E caps \in [1..n -> AddCaptionsCaptions] :
                 fn_in = AddCaptionsInput(caps)
       \/ \E n \in 1..MaxTextLen :
             \E text \in [1..n -> CaptionTextChars] :
                 /\ text = Strip(text)
                 /\ fn_in = CaptionClipInput(text)
       \/ \E n \in 1..MaxHighlights, flag \in BOOLEAN, tr \in Transcriptions :
             \E hls \in [1..n -> DemoHighlightInputs] :
                 fn_in = WorkflowCaptionsInput(flag, tr, hls)
       \/ \E n \in 0..MaxItems, sep \in ParseSeparators :
             \E items \in [1..n -> ParseItems] : fn_in = ParseInput(items, sep)
    /\ fn_out = None
    /\ response = None
    /\ InitExt

\* lines 517-522 at two positions of the loop
ApplyFilenames ==
    /\ fn_in # None /\ fn_in.fn = "filenames" /\ fn_out = None
    /\ fn_out' = [out |-> <<OutputFilename(fn_in.i1, Get(fn_in.h1, "title",
                                                        DefaultTitle(fn_in.i1))),
                             OutputFilename(fn_in.i2, Get(fn_in.h2, "title",
                                                        DefaultTitle(fn_in.i2)))>>]
    /\ UNCHANGED <<inputVars, output_dir, batchVars, callVars, files, log, fn_in,
                   response, extVars>>

\* lines 520-521
ApplySafeTitle ==
    /\ fn_in # None /\ fn_in.fn = "safe_title" /\ fn_out = None
    /\ fn_out' = [out |-> SafeTitle(fn_in.title)]
    /\ UNCHANGED <<inputVars, output_dir, batchVars, callVars, files, log, fn_in,
                   response, extVars>>

\* lines 517-522 and 457: the name given to item idx + 1 and the path
\* process_highlight_to_reel hands to write_videofile
ApplyOutputPath ==
    /\ fn_in # None /\ fn_in.fn = "output_path" /\ fn_out = None
    /\ LET output_filename == OutputFilename(fn_in.idx, fn_in.title)
       IN  fn_out' = [filename |-> output_filename,
                      path |-> PathJoin(fn_in.dir, output_filename)]
    /\ UNCHANGED <<inputVars, output_dir, batchVars, callVars, files, log, fn_in,
                   response, extVars>>

\* step 3 of the workflows (api_routes.py, lines 584-606)
ApplyWorkflowCaptions ==
    /\ fn_in # None /\ fn_in.fn = "workflow_captions" /\ fn_out = None
    /\ fn_out' = [out |-> WorkflowCaptions(fn_in.add_captions,
                                           fn_in.transcription,
                                           fn_in.highlights)]
    /\ UNCHANGED <<inputVars, output_dir, batchVars, callVars, files, log, fn_in,
                   response, extVars>>

\* _download_hls_video(hls_url, output_path)
ApplyDownloadHls ==
    /\ fn_in # None /\ fn_in.fn = "download_hls" /\ fn_out = None
    /\ fn_out' = [out |-> DownloadHls(fn_in.run)]
    /\ UNCHANGED <<inputVars, output_dir, batchVars, callVars, files, log, fn_in,
                   response, extVars>>

\* resize_to_portrait(clip, method)
ApplyResize ==
    /\ fn_in # None /\ fn_in.fn = "resize" /\ fn_out = None
    /\ \E o \in ResizeOutcomes(fn_in.size, fn_in.method) : fn_out' = [out |-> o]
    /\ UNCHANGED <<inputVars, output_dir, batchVars, callVars, files, log, fn_in,
                   response, extVars>>

\* _parse_highlights_from_analysis(analysis_text)
ApplyParse ==
    /\ fn_in # None /\ fn_in.fn = "parse" /\ fn_out = None
    /\ fn_out' = [out |-> ParseHighlights(fn_in.text)]
    /\ UNCHANGED <<inputVars, output_dir, batchVars, callVars, files, log, fn_in,
                   response, extVars>>

\* add_captions(clip, captions); outcomes[k] is what create_caption_clip
\* does when it is called for caption k
ApplyAddCaptions ==
    /\ fn_in # None /\ fn_in.fn = "add_captions" /\ fn_out = None
    /\ \E outcomes \in [DOMAIN fn_in.captions -> TextClipOutcomes] :
          fn_out' = [out |-> AddCaptions(fn_in.clip, fn_in.captions, outcomes),
                     outcomes |-> outcomes]
    /\ UNCHANGED <<inputVars, output_dir, batchVars, callVars, files, log, fn_in,
                   response, extVars>>

\* create_caption_clip(text, duration), returning a clip
ApplyCreateCaptionClip ==
    /\ fn_in # None /\ fn_in.fn = "caption_clip" /\ fn_out = None
    /\ \E outcome \in TextClipOutcomes \ {"raise"} :
          fn_out' = [out |-> CreateCaptionClip(fn_in.text, fn_in.duration, outcome)]
    /\ UNCHANGED <<inputVars, output_dir, batchVars, callVars, files, log, fn_in,
                   response, extVars>>

NextPure ==
    \/ ApplyFilenames
    \/ ApplySafeTitle
    \/ ApplyOutputPath
    \/ ApplyWorkflowCaptions
    \/ ApplyDownloadHls
    \/ ApplyResize
    \/ ApplyParse
    \/ ApplyAddCaptions
    \/ ApplyCreateCaptionClip

SpecPure == InitPure /\ [][NextPure]_vars

(***************************************************************************)
(* Properties.                                                             *)
(***************************************************************************)
\* the output path of the 1-based item of the running batch
PathOf(item) ==
    PathJoin(output_dir,
             OutputFilename(item - 1, Get(highlights[item], "title",
                                          DefaultTitle(item - 1))))

Items == 1..Len(highlights)

\* the item was handed to the pipeline
Attempted(item) ==
    \E p \in DOMAIN log : log[p] = [ev |-> "processing", item |-> item]

\* the pipeline wrote the item's reel: its start is followed by "created"
Rendered(item) ==
    \E p \in DOMAIN log :
        /\ log[p] = [ev |-> "processing", item |-> item]
        /\ p < Len(log)
        /\ log[p + 1].ev = "created"

ErrorLogged(item) ==
    \E p \in DOMAIN log : log[p] = [ev |-> "error", item |-> item]

\* C1: when a batch returns, every highlight was attempted, also after a
\* failure; each failed one is skipped with an error record naming it; and
\* the list returned holds exactly the paths of the highlights whose render
\* succeeded, one each.
C1_BatchIsolation ==
    bpc \in {"returned", "responded"} =>
        /\ \A item \in Items : Attempted(item)
        /\ \A item \in Items : ErrorLogged(item) <=> ~Rendered(item)
        /\ Len(reel_paths) = Cardinality({item \in Items : Rendered(item)})
        /\ Range(reel_paths) = {PathOf(item) : item \in {x \in Items : Rendered(x)}}

\* three highlights, the second starting beyond the end of the source: two
\* paths, those of items 1 and 3
C1_Witness ==
    /\ bpc = "returned"
    /\ Len(highlights) = 3
    /\ Get(highlights[2], "start", 0) > video.duration
    /\ video.exists
    /\ reel_paths = <<PathOf(1), PathOf(3)>>
    /\ ErrorLogged(2) /\ ~ErrorLogged(1) /\ ~ErrorLogged(3)

\* the caption window of the running call
ClipDuration == call.end_time - call.start_time

\* C2: every caption of adjusted_captions has
\* 0 <= start < end <= end_time - start_time.
C2_AdjustedInWindow ==
    \A k \in DOMAIN adjusted_captions :
        /\ 0 <= adjusted_captions[k].start
        /\ adjusted_captions[k].start < adjusted_captions[k].end
        /\ adjusted_captions[k].end <= ClipDuration

\* two captions kept, one of them cut at both ends of the window
C2_Witness ==
    /\ pc = "Encode"
    /\ Len(adjusted_captions) = 2
    /\ call.start_time = 1000 /\ call.end_time = 2000
    /\ \E k \in DOMAIN adjusted_captions, j \in DOMAIN call.captions :
          /\ call.captions[j].start < call.start_time
          /\ "end" \in DOMAIN call.captions[j]
          /\ call.captions[j].end > call.end_time
          /\ adjusted_captions[k].start = 0
          /\ adjusted_captions[k].end = ClipDuration

CapStartAbs(cap) == Get(cap, "start", 0)

CapEndAbs(cap) == Get(cap, "end", CapStartAbs(cap) + DefaultCaptionLength)

\* the caption's absolute interval overlaps the highlight's
OverlapsHighlight(cap) ==
    CapEndAbs(cap) > call.start_time /\ CapStartAbs(cap) < call.end_time

Caption58 == [text |-> <<"h", "i">>, start |-> 500, end |-> 800]

\* C3: each caption of adjusted_captions comes from a caption of the track
\* whose absolute interval overlaps the highlight's, at that caption's
\* interval rebased to the highlight's start and cut to the window; no more
\* captions are kept than overlap. Caption [5,8] is kept as [5,8] for the
\* highlight [0,10] and dropped for the highlight [10,20].
C3_OnlyOverlapping ==
    (/\ pc \in {"Encode", "Finally", "Returned", "Raised"}
     /\ result.kind = "raise" => result.at = "Encode") =>
        /\ \A k \in DOMAIN adjusted_captions :
              \E j \in DOMAIN call.captions :
                  /\ OverlapsHighlight(call.captions[j])
                  /\ adjusted_captions[k].text = call.captions[j].text
                  /\ adjusted_captions[k].start
                       = Max(0, CapStartAbs(call.captions[j]) - call.start_time)
                  /\ adjusted_captions[k].end
                       = Min(ClipDuration, CapEndAbs(call.captions[j]) - call.start_time)
        /\ Len(adjusted_captions)
             <= Cardinality({j \in DOMAIN call.captions :
                                OverlapsHighlight(call.captions[j])})
        /\ (call.captions = <<Caption58>> /\ call.start_time = 0
                /\ call.end_time = 1000)
             => adjusted_captions = <<Caption58>>
        /\ (call.captions = <<Caption58>> /\ call.start_time = 1000
                /\ call.end_time = 2000)
             => adjusted_captions = <<>>

C3_Witness ==
    /\ pc = "Encode"
    /\ call.captions = <<Caption58>>
    /\ call.start_time = 0 /\ call.end_time = 1000
    /\ adjusted_captions = <<Caption58>>

\* C4: when process_highlight_to_reel returns or raises, every clip handle
\* it opened has been closed.
C4_AllHandlesClosed ==
    pc \in {"Returned", "Raised"} => opened \subseteq closed

\* 0 <= start < end <= source_duration
ValidRange(start, end, duration) == 0 <= start /\ start < end /\ end <= duration

\* C5: a highlight that violates 0 <= start < end <= source_duration fails at
\* Extract: it reaches neither Transform nor Encode and no file is written
\* for it.
C5_RangeValidated ==
    (call # None /\ ~ValidRange(call.start_time, call.end_time, video.duration)) =>
        /\ pc \notin {"Transform", "Caption", "Encode"}
        /\ result.kind # "path"

\* the log entries that start an item, in order
Started == SelectSeq(log, LAMBDA e : e.ev = "processing")

\* the log entries of reels written, in order
Created == SelectSeq(log, LAMBDA e : e.ev = "created")

\* C6: highlights are rendered one at a time in input order (an item starts
\* only after the one before it has ended, with a reel or an error), and
\* reel_paths holds the paths of the reels written, in the order they were
\* written, which is the order of the highlights.
C6_InputOrder ==
    /\ \A p \in DOMAIN Started : Started[p].item = p
    /\ \A p \in DOMAIN log :
          (log[p].ev = "processing" /\ p < Len(log))
              => log[p + 1].ev \in {"created", "error"}
    /\ \A p \in DOMAIN log :
          (log[p].ev \in {"created", "error"} /\ p < Len(log))
              => log[p + 1].ev = "processing"
    /\ Len(reel_paths) <= Len(Created)
    /\ Len(Created) <= Len(reel_paths) + 1
    /\ \A k \in DOMAIN reel_paths : reel_paths[k] = Created[k].path
    /\ bpc \in {"returned", "responded"} => Len(reel_paths) = Len(Created)
    /\ \A a \in DOMAIN reel_paths, b \in DOMAIN reel_paths :
          a < b => \E m \in Items, n \in Items :
                      /\ m < n
                      /\ Rendered(m) /\ Rendered(n)
                      /\ reel_paths[a] = PathOf(m)
                      /\ reel_paths[b] = PathOf(n)

\* a batch of three, all rendered, two of them with the same title
C6_Witness ==
    /\ bpc = "returned"
    /\ Len(highlights) = 3
    /\ Get(highlights[1], "title", None) = Get(highlights[2], "title", None)
    /\ \A item \in Items : Rendered(item)
    /\ reel_paths = <<PathOf(1), PathOf(2), PathOf(3)>>
    /\ Created = <<[ev |-> "created", path |-> PathOf(1)],
                   [ev |-> "created", path |-> PathOf(2)],
                   [ev |-> "created", path |-> PathOf(3)]>>

Applied(fn) == fn_in # None /\ fn_in.fn = fn /\ fn_out # None

\* C7: the filenames generated at two positions of one batch differ,
\* whatever the two titles.
C7_DistinctFilenames ==
    Applied("filenames") => fn_out.out[1] # fn_out.out[2]

\* items 1 and 11, the title of item 1 beginning with the digit that
\* item 11's number ends with
C7_Witness ==
    /\ Applied("filenames")
    /\ fn_in.i1 = 0 /\ fn_in.i2 = 10
    /\ fn_in.h1 = [title |-> <<"1">>]
    /\ fn_in.h2 = [title |-> <<>>]
    /\ fn_out.out = << <<"r", "e", "e", "l", "_", "1", "_", "1", ".", "m", "p", "4">>,
                       <<"r", "e", "e", "l", "_", "1", "1", "_", ".", "m", "p", "4">> >>

Count(s, c) == Cardinality({k \in DOMAIN s : s[k] = c})

HasUnderscoreRun(s) == \E k \in DOMAIN s : k < Len(s) /\ s[k] = "_" /\ s[k + 1] = "_"

\* the position of the last character of the title that is kept and is no space
LastKept(title) ==
    LET kept == {k \in DOMAIN title : KeepChar(title[k]) /\ title[k] # " "}
    IN  IF kept = {} THEN 0 ELSE CHOOSE k \in kept : \A m \in kept : m <= k

\* C8 as stated: runs of spaces are collapsed, so a title without '_' gives
\* a slug without two '_' in a row (and without ' ', '!', '#').
C8_AsStated ==
    Applied("safe_title") =>
        /\ \A k \in DOMAIN fn_out.out : fn_out.out[k] \notin {" ", "!", "#"}
        /\ Count(fn_in.title, "_") = 0 => ~HasUnderscoreRun(fn_out.out)

\* C8 as amended: the slug holds only alphanumerics, '-' and '_'; its
\* characters other than '_' are the alphanumerics and '-' of the title, in
\* order; and it has one '_' for each '_' of the title and one for each
\* space of the title before the last kept character that is no space
\* (spaces after it are dropped, and a run of spaces gives a run of '_').
C8_Slug ==
    Applied("safe_title") =>
        LET title == fn_in.title
            slug == fn_out.out
        IN  /\ \A k \in DOMAIN slug : IsAlnum(slug[k]) \/ slug[k] \in {"-", "_"}
            /\ SelectSeq(slug, LAMBDA c : c # "_")
                 = SelectSeq(title, LAMBDA c : IsAlnum(c) \/ c = "-")
            /\ Count(slug, "_")
                 = Cardinality({k \in DOMAIN title :
                                   \/ title[k] = "_"
                                   \/ title[k] = " " /\ k < LastKept(title)})

C8_Witness ==
    /\ Applied("safe_title")
    /\ fn_in.title = EpicSave
    /\ fn_out.out = <<"E", "p", "i", "c", "_", "S", "a", "v", "e", "_", "1">>

InsideSource(win, w, h) ==
    /\ 0 <= win.x1 /\ win.x1 < win.x2 /\ win.x2 <= w
    /\ 0 <= win.y1 /\ win.y1 < win.y2 /\ win.y2 <= h

\* C9: for a source of size (w, h), w > 0 and h > 0, 'crop' takes a window
\* inside the source, 0 <= x1 < x2 <= w and 0 <= y1 < y2 <= h, cropping the
\* width when 16 w > 9 h and the height otherwise, and scales it to
\* 1080 x 1920.
C9_CropWindow ==
    (/\ Applied("resize") /\ fn_in.method = "crop"
     /\ fn_in.size[1] > 0 /\ fn_in.size[2] > 0) =>
        LET w == fn_in.size[1]
            h == fn_in.size[2]
            o == fn_out.out
        IN  /\ InsideSource(o.window, w, h)
            /\ IF 16 * w > 9 * h
               THEN o.window.y1 = 0 /\ o.window.y2 = h
               ELSE o.window.x1 = 0 /\ o.window.x2 = w
            /\ ~o.raised
            /\ o.size = <<1080, 1920>>
            /\ (w = 1080 /\ h = 1920) => o.window = FullWindow(w, h)

\* C10: a call with resize_method 'fit' on a highlight inside the source
\* does not fail in the transform, so it goes on to Encode.
C10_FitSucceeds ==
    (/\ call # None /\ call.resize_method = "fit"
     /\ ValidRange(call.start_time, call.end_time, video.duration))
        => ~(result.kind = "raise" /\ result.at = "Transform")

\* the entries of the text that match the pattern
OkItems == SelectSeq(fn_in.items, LAMBDA it : it.kind = "ok")

AllOk == \A k \in DOMAIN fn_in.items : fn_in.items[k].kind = "ok"

BigSaveText ==
    <<"*", "*", "B", "i", "g", " ", "S", "a", "v", "e", "*", "*", ":", " ",
      "[", "1", "2", "s", " ", "(", "0", "0", ":", "1", "2", ")", "~",
      "2", "7", "s", " ", "(", "0", "0", ":", "2", "7", ")", "]">>

\* C11: the parser returns one highlight for each entry of the text that
\* matches the pattern, in text order, with start and end the seconds of the
\* entry as floats whatever its clock parentheticals, and with a title that
\* has no blank at either end: the entry's title trimmed (when the entries
\* are on lines of their own or all match). The text
\* '**Big Save**: [12s (00:12)~27s (00:27)]' gives exactly
\* [{title 'Big Save', start 12.0, end 27.0}]; a text without a match gives
\* the empty list.
C11_Parse ==
    Applied("parse") =>
        LET out == fn_out.out
        IN  /\ Len(out) = Len(OkItems)
            /\ \A k \in DOMAIN out :
                  /\ DOMAIN out[k] = {"title", "start", "end"}
                  /\ out[k].start = OkItems[k].t.start_value
                  /\ out[k].end = OkItems[k].t.end_value
                  /\ out[k].title # <<>>
                  /\ ~IsSpace(out[k].title[1])
                  /\ ~IsSpace(out[k].title[Len(out[k].title)])
                  /\ (AllOk \/ fn_in.sep = <<"\n">>)
                        => out[k].title = OkItems[k].t.trimmed
            /\ fn_in.text = BigSaveText
                  => out = <<[title |-> BigSave, start |-> 1200, end |-> 2700]>>
            /\ (\A k \in DOMAIN fn_in.text : fn_in.text[k] # "~") => out = <<>>

\* the text of the example
C11_Witness ==
    /\ Applied("parse")
    /\ fn_in.text = BigSaveText
    /\ fn_out.out = <<[title |-> BigSave, start |-> 1200, end |-> 2700]>>

\* C21: with captioning requested and an empty transcription the workflow
\* has one caption per highlight, in order, with the highlight's title as
\* text, the highlight's start as start and start + min(duration, 5 s) as
\* end; for a highlight with end > start that caption lies inside the
\* highlight's window and lasts at most 5 s; with a transcription that is
\* not empty the captions are the transcription and nothing is synthesized.
C21_DemoCaptions ==
    Applied("workflow_captions") =>
        LET out == fn_out.out
            hls == fn_in.highlights
        IN  /\ (fn_in.add_captions /\ fn_in.transcription = <<>>) =>
                  /\ Len(out) = Len(hls)
                  /\ \A k \in DOMAIN hls :
                        LET start == Get(hls[k], "start", 0)
                            end == Get(hls[k], "end", 0)
                        IN  /\ out[k].text = Get(hls[k], "title", <<>>)
                            /\ out[k].start = start
                            /\ out[k].end = start + Min(end - start, 500)
                            /\ end > start =>
                                  /\ start <= out[k].start
                                  /\ out[k].start < out[k].end
                                  /\ out[k].end <= end
                                  /\ out[k].end - out[k].start <= 500
            /\ (fn_in.add_captions /\ fn_in.transcription # <<>>) =>
                  out = fn_in.transcription

\* highlights of 15 s and of 3 s: captions [0, 5] and [50, 53]
C21_Witness ==
    /\ Applied("workflow_captions")
    /\ fn_in.add_captions /\ fn_in.transcription = <<>>
    /\ fn_in.highlights = <<[title |-> <<"a">>, start |-> 0, end |-> 1500],
                            [title |-> <<"a">>, start |-> 5000, end |-> 5300]>>
    /\ fn_out.out = <<[text |-> <<"a">>, start |-> 0, end |-> 500],
                      [text |-> <<"a">>, start |-> 5000, end |-> 5300]>>

\* C22: every highlight the parser returns has start >= 0 and end > start,
\* whatever the analysis text is, also when a bracketed range of the text has
\* an end that is not after its start.
C22_ValidHighlights ==
    Applied("parse") =>
        \A k \in DOMAIN fn_out.out :
            /\ fn_out.out[k].start >= 0
            /\ fn_out.out[k].end > fn_out.out[k].start

\* os.path.dirname of a path
Dirname(path) ==
    LET seps == {k \in DOMAIN path : path[k] = "/"}
    IN  IF seps = {} THEN <<>>
        ELSE SubSeq(path, 1, (CHOOSE k \in seps : \A m \in seps : m <= k) - 1)

Mp4 == <<".", "m", "p", "4">>

\* C23: when the remuxing tool is absent, _download_hls_video raises an error
\* of a kind that no transient failure (non-zero exit, timeout, empty or
\* missing output) raises; and it returns the path only when the output
\* file exists and is not empty.
C23_DistinctErrorKind ==
    Applied("download_hls") =>
        /\ fn_in.run.launch = "absent" =>
              /\ fn_out.out.kind = "raise"
              /\ \A run \in TransientRuns :
                    DownloadHls(run).type # fn_out.out.type
        /\ fn_out.out.kind = "path" => fn_in.run.output = "data"

\* C24: a batch call with an output_dir sets the object's output_dir and
\* nothing sets it back, so every reel of a later call without output_dir
\* (a batch call or a process_highlight_to_reel call) is written under that
\* directory; a batch call without output_dir leaves the object's
\* output_dir as it was.
C24_OutputDirSticks ==
    /\ (calls # <<>> /\ calls[1].output_dir # None /\ bpc # "called")
            => output_dir = calls[1].output_dir
    /\ (Len(calls) = 2 /\ calls[1].output_dir # None /\ result.kind = "path")
            => Dirname(result.path) = calls[1].output_dir
    /\ (calls # <<>> /\ \A k \in DOMAIN calls : calls[k].output_dir = None)
            => output_dir = TempDir

\* a reel of process_highlight_to_reel under the directory of the batch call
\* before it
C24_Witness ==
    /\ calls = <<BatchCall(ReelsDir), ReelCall>>
    /\ pc = "Returned"
    /\ result.kind = "path"
    /\ Dirname(result.path) = ReelsDir
    /\ output_dir = ReelsDir

\* C25: two renders that run at the same time never write the same file:
\* neither the same output file nor the same temporary audio file.
C25_NoSharedWriteTarget ==
    \A a \in DOMAIN renders, b \in DOMAIN renders :
        (a # b /\ renders[a].pc = "encoding" /\ renders[b].pc = "encoding") =>
            /\ renders[a].output_path # renders[b].output_path
            /\ renders[a].temp_audiofile # renders[b].temp_audiofile

\* a task object names a video id in one of the places the code looks at
IdPresent(task) ==
    \/ "video_id" \in DOMAIN task /\ task.video_id # Null
    \/ "data" \in DOMAIN task /\ Get(task.data, "video_id", Null) # Null
    \/ "_id" \in DOMAIN task /\ task["_id"] # Null

\* the answer is a well-formed 200 answer with one of the given statuses
AnswerWithStatus(answer, statuses) ==
    /\ answer # None
    /\ answer.kind = "response"
    /\ answer.status_code = 200
    /\ answer.is_json
    /\ Get(answer.body, "status", Null) \in statuses

ReadyWithId(answer) ==
    /\ AnswerWithStatus(answer, {"ready", "completed"})
    /\ IdPresent(answer.body)

\* C26: upload_video_file never raises; what it returns has exactly one of
\* the keys 'error' and 'video_id'; it has 'video_id' only when the last
\* poll reported 'ready' or 'completed' with a video id in the task, and in
\* every other case (bad arguments, task not created, no task id, status
\* 'failed' or 'error', timeout, exception) it has 'error'.
C26_ErrorOrVideoId ==
    upc = "done" =>
        /\ fn_out.kind = "return"
        /\ ("error" \in DOMAIN fn_out.value) # ("video_id" \in DOMAIN fn_out.value)
        /\ "video_id" \in DOMAIN fn_out.value =>
              /\ ReadyWithId(r)
              /\ fn_out.value.video_id # Null
        /\ ~ReadyWithId(r) => "error" \in DOMAIN fn_out.value

\* the task is 'completed' with its video id under 'data', after a poll
\* that was not final
C26_Witness ==
    /\ upc = "done"
    /\ elapsed >= PollSleep
    /\ r.kind = "response"
    /\ r.body = [status |-> "completed", data |-> [video_id |-> "v"]]
    /\ fn_out = Returned([status |-> "completed", video_id |-> "v",
                          task_id |-> "t", task |-> r.body])

\* C27: the polling loop ends only when a poll reports a terminal status or
\* when timeout_seconds have elapsed: after an answer with another status
\* code than 200, or with any other status, the loop polls again, and a
\* call that never sees a terminal status returns 'Upload timed out'.
C27_LoopEnds ==
    (r # None /\ r.kind = "response") =>
        LET terminal ==
                AnswerWithStatus(r, {"ready", "completed", "failed", "error"})
        IN  /\ upc = "poll" => ~terminal
            /\ upc = "done" =>
                  /\ terminal \/ elapsed >= fn_in.timeout_seconds
                  /\ ~terminal =>
                        /\ fn_out.kind = "return"
                        /\ fn_out.value.error = "Upload timed out"

\* C28: when a request to the upload-and-process workflow has ended, on
\* whatever path it took after the upload was saved, the uploaded temporary
\* file does not exist; and when a workflow request that downloaded the
\* source video has ended, with success or with an error, the downloaded
\* file does not exist.
C28_TempFilesRemoved ==
    wpc = "done" =>
        \A f \in DOMAIN temp_files :
            temp_files[f] \notin {"upload", "video", "partial"}

\* C29: whatever the title, the name generated for an item of a batch has no
\* path separator and no '.' but the one of its extension '.mp4', and the
\* path handed to the encoder is that name directly under the output
\* directory.
C29_DirectChild ==
    Applied("output_path") =>
        LET name == fn_out.filename
        IN  /\ Count(name, "/") = 0
            /\ Count(name, ".") = 1
            /\ Len(name) > 4 /\ SubSeq(name, Len(name) - 3, Len(name)) = Mp4
            /\ fn_out.path = fn_in.dir \o <<"/">> \o name
            /\ Dirname(fn_out.path) = fn_in.dir

\* the title '../'
C29_Witness ==
    /\ Applied("output_path")
    /\ fn_in.title = <<".", ".", "/">>
    /\ fn_in.idx = 0
    /\ fn_out.path = <<"/", "r", "/", "r", "e", "e", "l", "_", "1", "_",
                       ".", "m", "p", "4">>

\* C30: every reel file written holds a clip that came out of the portrait
\* transform; with a resize_method other than 'crop' and 'fit' no clip of
\* the source's size is encoded as a reel.
C30_OnlyTransformedWritten ==
    \A path \in DOMAIN files :
        /\ files[path].kind = "transformed"
        /\ files[path].size = <<REEL_WIDTH, REEL_HEIGHT>>

HighlightStart(item) == Get(highlights[item], "start", 0)

HighlightEnd(item) == Get(highlights[item], "end", 0)

\* the captions of the track whose absolute interval overlaps the item's
OverlappingItem(item) ==
    {j \in DOMAIN captions :
        /\ CapEndAbs(captions[j]) > HighlightStart(item)
        /\ CapStartAbs(captions[j]) < HighlightEnd(item)}

\* the caption's interval rebased to the item's start and cut to its window
RebasedStart(item, j) == Max(0, CapStartAbs(captions[j]) - HighlightStart(item))

RebasedEnd(item, j) ==
    Min(HighlightEnd(item) - HighlightStart(item),
        CapEndAbs(captions[j]) - HighlightStart(item))

IsBlank(text) == \A k \in DOMAIN text : text[k] \in {" ", "\t", "\n"}

\* the overlapping captions that can be shown: text not blank, and at least
\* 0.1 s inside the window
Showable(item) ==
    {j \in OverlappingItem(item) :
        /\ ~IsBlank(Get(captions[j], "text", <<>>))
        /\ RebasedEnd(item, j) - RebasedStart(item, j) >= 10}

\* the reel of the item has been written
Written(item) == PathOf(item) \in DOMAIN files

\* C12 as stated: a reel whose captions raised no warning has one overlay
\* for each caption of the track that overlaps its highlight's window.
C12_AsStated ==
    \A item \in Items :
        (Written(item) /\ item = i + 1 /\ pc = "Returned" /\ caption_log = <<>>)
            => Len(files[PathOf(item)].overlays)
                 = Cardinality(OverlappingItem(item))

\* C12 as amended: the overlays of each reel of a batch are overlays of
\* captions of the full track that overlap that highlight's own window, in
\* track order, one per caption at most, each at the caption's interval
\* rebased to that highlight's start and cut to the window; and a caption
\* that overlaps has an overlay unless its text is blank, less than 0.1 s of
\* it lies inside the window, or its overlay could not be built (a warning
\* names it). Highlights [0,15] and [50,90] with one caption [2,4]: reel 2
\* has no overlay and reel 1 none but the one at [2,4].
C12_PerHighlightCaptions ==
    \A item \in Items :
        Written(item) =>
            LET overlays == files[PathOf(item)].overlays
            IN  /\ \E f \in [DOMAIN overlays -> Showable(item)] :
                      /\ \A a \in DOMAIN overlays, b \in DOMAIN overlays :
                            a < b => f[a] < f[b]
                      /\ \A k \in DOMAIN overlays :
                            /\ overlays[k].start = RebasedStart(item, f[k])
                            /\ overlays[k].start + overlays[k].duration
                                 = RebasedEnd(item, f[k])
                /\ (item = i + 1 /\ pc = "Returned")
                      => Len(overlays) + Len(caption_log)
                           = Cardinality(Showable(item))
                /\ (/\ captions = <<[text |-> <<"h", "i">>, start |-> 200,
                                     end |-> 400]>>
                    /\ HighlightStart(item) = 5000 /\ HighlightEnd(item) = 9000)
                      => overlays = <<>>
                /\ (/\ captions = <<[text |-> <<"h", "i">>, start |-> 200,
                                     end |-> 400]>>
                    /\ HighlightStart(item) = 0 /\ HighlightEnd(item) = 1500
                    /\ overlays # <<>>)
                      => /\ Len(overlays) = 1
                         /\ overlays[1].start = 200 /\ overlays[1].duration = 200

\* the example: reel 1 with the overlay at [2,4], reel 2 without overlay
C12_Witness ==
    /\ bpc = "returned"
    /\ Len(highlights) = 2
    /\ HighlightStart(1) = 0 /\ HighlightEnd(1) = 1500
    /\ HighlightStart(2) = 5000 /\ HighlightEnd(2) = 9000
    /\ captions = <<[text |-> <<"h", "i">>, start |-> 200, end |-> 400]>>
    /\ Written(1) /\ Written(2)
    /\ files[PathOf(1)].overlays
         = <<[text |-> <<"H", "I">>, style |-> "outlined", start |-> 200,
              duration |-> 200]>>
    /\ files[PathOf(2)].overlays = <<>>

\* C13: with a source file that is missing, a batch of at least one highlight
\* does not return a list: it fails as a whole, and the endpoint does not
\* answer with success.
C13_SharedPreconditionFails ==
    (~video.exists /\ highlights # <<>>) =>
        /\ bpc \notin {"returned", "responded"}
        /\ response # None => ~response.success

\* C14: in the answer of a workflow endpoint, the 'highlight' of every reel
\* entry is the highlight whose reel the entry's path is.
C14_ReelHighlight ==
    (response # None /\ response.endpoint = "workflow") =>
        \A k \in DOMAIN response.reels :
            \E item \in Items :
                /\ response.reels[k].path = PathOf(item)
                /\ response.reels[k].highlight = highlights[item]

\* C15: the answer to a single-item caller is a path or an error that names
\* the step that failed.
C15_StructuredError ==
    (response # None /\ response.endpoint = "reel") =>
        IF response.success
        THEN response.reel_path = result.path
        ELSE \E f \in DOMAIN response \ {"status", "success"} :
                 response[f] = result.at

\* the moves of process_highlight_to_reel from step to step
PipelineMoves ==
    { <<"Extract", "Transform">>, <<"Transform", "Caption">>,
      <<"Caption", "Encode">>, <<"Encode", "Finally">>,
      <<"Extract", "Finally">>, <<"Transform", "Finally">>,
      <<"Finally", "Returned">>, <<"Finally", "Raised">> }

\* the moves of the loop around it: a call begins, a call has ended
BatchMoves == { <<"idle", "Extract">>, <<"Returned", "idle">>, <<"Raised", "idle">> }

\* C16: the steps of process_highlight_to_reel run in the order Extract,
\* Transform, Caption (or skip), Encode; the file is written by Encode only,
\* on a clip that was extracted and transformed; a path is returned only
\* after Encode has written the file; and once a step has failed no later
\* step runs, no file is written and the call raises.
C16_StateMachine ==
    [][/\ pc' # pc => <<pc, pc'>> \in PipelineMoves \cup BatchMoves
       /\ files' # files =>
             /\ pc = "Encode" /\ result.kind = "none"
             /\ "trimmed" \in opened
             /\ call.resize_method = "crop" => clip.size = <<1080, 1920>>
             /\ call.resize_method = "fit" => FALSE
       /\ pc' = "Returned" =>
             /\ result.kind = "path" /\ result.path \in DOMAIN files
             /\ files[result.path] = clip
       /\ pc' \in {"Transform", "Caption", "Encode"} => result'.kind = "none"
       /\ (result.kind = "raise"
              /\ pc \in {"Extract", "Transform", "Caption", "Encode", "Finally"}) =>
             /\ pc' \in {"Finally", "Raised"}
             /\ result' = result /\ files' = files /\ clip' = clip
      ]_vars

\* the second highlight of a batch has failed in Transform after being
\* extracted: nothing was written and the clip is still the trimmed one
C16_Witness ==
    /\ pc = "Raised"
    /\ i = 1
    /\ result.kind = "raise" /\ result.at = "Transform"
    /\ clip.kind = "trimmed"
    /\ "trimmed" \in opened
    /\ files = <<>>

\* the caption passes the inclusion rule on a clip of the given duration:
\* text not blank, end > start, 0 <= start < duration, and at least 0.1 s
\* left once the end is cut to the duration
PassesRule(cap, duration) ==
    /\ ~IsBlank(Get(cap, "text", <<>>))
    /\ CapEndAbs(cap) > CapStartAbs(cap)
    /\ CapStartAbs(cap) >= 0
    /\ CapStartAbs(cap) < duration
    /\ Min(CapEndAbs(cap), duration) - CapStartAbs(cap) >= 10

\* C17: every overlay that add_captions puts on a clip has start >= 0,
\* start + duration <= clip.duration and duration >= 0.1 s, and is the
\* overlay of a caption that passes the inclusion rule, from the caption's
\* start to the caption's end or the end of the clip, whichever is first;
\* when no caption passes the rule the clip is returned as it came.
C17_InclusionRule ==
    Applied("add_captions") =>
        LET caps == fn_in.captions
            duration == fn_in.clip.duration
            overlays == fn_out.out.clip.overlays
        IN  /\ \A k \in DOMAIN overlays :
                  /\ overlays[k].start >= 0
                  /\ overlays[k].start + overlays[k].duration <= duration
                  /\ overlays[k].duration >= 10
                  /\ \E j \in DOMAIN caps :
                        /\ PassesRule(caps[j], duration)
                        /\ overlays[k].start = CapStartAbs(caps[j])
                        /\ overlays[k].start + overlays[k].duration
                             = Min(CapEndAbs(caps[j]), duration)
            /\ Len(overlays)
                 <= Cardinality({j \in DOMAIN caps : PassesRule(caps[j], duration)})
            /\ (\A j \in DOMAIN caps : ~PassesRule(caps[j], duration))
                  => fn_out.out.clip = fn_in.clip

\* a caption that ends after the clip is cut to the clip's end, next to a
\* caption skipped because less than 0.1 s of it is left
C17_Witness ==
    /\ Applied("add_captions")
    /\ fn_in.captions = <<[text |-> Hi, start |-> 95, end |-> 150],
                          [text |-> <<" ", "h", "i", " ">>, start |-> 85,
                           end |-> 150]>>
    /\ fn_out.out.clip.overlays
         = <<[text |-> <<"H", "I">>, style |-> "outlined", start |-> 85,
              duration |-> 15]>>
    /\ fn_out.out.warnings = <<>>

\* the captions that pass the rule and whose text clip could be built, in
\* the order of the list
BuiltCaptions ==
    SelectSeq([k \in DOMAIN fn_in.captions |-> k],
              LAMBDA k : /\ PassesRule(fn_in.captions[k], fn_in.clip.duration)
                         /\ fn_out.outcomes[k] # "raise")

\* the captions that pass the rule and whose text clip could not be built
FailedCaptions ==
    SelectSeq([k \in DOMAIN fn_in.captions |-> k],
              LAMBDA k : /\ PassesRule(fn_in.captions[k], fn_in.clip.duration)
                         /\ fn_out.outcomes[k] = "raise")

\* C19: when create_caption_clip raises for a caption (the outlined clip and
\* the plain one both failed), that caption alone is skipped, with a
\* warning: the clip returned has one overlay for every other caption that
\* passes the inclusion rule, in the order of the list, wherever the failing
\* caption stands.
C19_FailureSkipsOneCaption ==
    Applied("add_captions") =>
        LET overlays == fn_out.out.clip.overlays
        IN  /\ Len(overlays) = Len(BuiltCaptions)
            /\ \A k \in DOMAIN overlays :
                  /\ overlays[k].start = CapStartAbs(fn_in.captions[BuiltCaptions[k]])
                  /\ overlays[k].style = fn_out.outcomes[BuiltCaptions[k]]
            /\ fn_out.out.warnings = FailedCaptions

\* the first of two captions fails, the second is built by the fallback
C19_Witness ==
    /\ Applied("add_captions")
    /\ fn_in.captions = <<[text |-> Hi, start |-> 0, end |-> 50],
                          [text |-> Hi, start |-> 50]>>
    /\ fn_out.outcomes = <<"raise", "plain">>
    /\ fn_out.out.warnings = <<1>>
    /\ fn_out.out.clip.kind = "composited"
    /\ fn_out.out.clip.overlays
         = <<[text |-> <<"H", "I">>, style |-> "plain", start |-> 50,
              duration |-> 50]>>

\* the words of a text: its maximal runs of characters that are no blanks
WordCount(text) ==
    Cardinality({k \in DOMAIN text :
                    /\ ~IsSpace(text[k])
                    /\ k = 1 \/ IsSpace(text[k - 1])})

\* C20: the text of the clip that create_caption_clip returns is the same on
\* the outlined path and on the plain path: the words of the caption, at
\* most 3 on a line, the lines joined by line breaks, in upper case.
C20_SameTextOnEveryPath ==
    Applied("caption_clip") =>
        LET shown == fn_out.out.text
        IN  /\ shown = FormattedText(fn_in.text)
            /\ WordCount(shown) = WordCount(fn_in.text)
            /\ \A k \in DOMAIN shown : shown[k] \in {"A", " ", "\n"}
            /\ WordCount(fn_in.text) > 3 => \E k \in DOMAIN shown : shown[k] = "\n"

\* the clip that resize_to_portrait returned to the running call
TransformedClip ==
    [kind |-> "transformed", size |-> <<1080, 1920>>,
     duration |-> call.end_time - call.start_time, overlays |-> <<>>]

\* the running call has passed the caption step
PastCaption ==
    /\ pc \in {"Encode", "Finally", "Returned", "Raised"}
    /\ result.kind = "raise" => result.at = "Encode"

\* C18: in a call that has passed the caption step, the clip is the
\* transformed clip itself when captioning is off, the track is empty or
\* absent, no caption overlaps the window, or no overlay was produced; that
\* clip is what Encode writes; and the call has not failed in the caption
\* step.
C18_PassThrough ==
    PastCaption =>
        /\ (\/ ~call.add_captions
            \/ call.captions = <<>>
            \/ \A j \in DOMAIN call.captions : ~OverlapsHighlight(call.captions[j])
            \/ clip.overlays = <<>>)
              => clip = TransformedClip
        /\ pc = "Returned" => files[result.path] = clip
        /\ result.kind = "raise" => result.at # "Caption"

\* two captions overlap the window and the text clip of neither could be
\* built: the reel written is the transformed clip
C18_Witness ==
    /\ pc = "Returned"
    /\ call.add_captions
    /\ Len(adjusted_captions) = 2
    /\ caption_log = <<1, 2>>
    /\ clip = TransformedClip
    /\ files[result.path] = TransformedClip

====
